---- MODULE Spec2Model ----
(***************************************************************************)
(* Model of the type-gen pipeline (TypeScript declarations -> Rust IR ->   *)
(* Rust text): the lowering engine convertTypeToRustIR, the alias          *)
(* registry, enum synthesis, the placeholder-union deduplicator, the       *)
(* declaration lowering and the emission of the output artifacts.          *)
(*                                                                         *)
(* Text is modelled as a sequence of tokens (strings): the rendered text   *)
(* of a type, and the emitted Rust code.  A ts-morph Type is a record of   *)
(* what the code asks of it: getText(), isArray(), getArrayElementType(),  *)
(* isTuple(), getTupleElements(), isUnion(), getUnionTypes().              *)
(***************************************************************************)
EXTENDS Integers, Sequences, FiniteSets, TLC

VARIABLES
  \* --- module-level state of the generator process
  typeAliasRegistry,   \* Map<string,string>: alias name -> definition text
  generatedItems,      \* Map<string,RustItem>, in insertion order
  todoTypes,           \* Map<string,RustTypeIR[]>, in insertion order
  todoUnionCounter,    \* next sequential placeholder id
  todoUnionCache,      \* Map<string,string>: signature -> placeholder name
  \* --- the run
  pc,                  \* position of the process in main/generateRustTypes
  fileIdx,             \* index of the source file the current pass is at
  sourceFiles,         \* project.getSourceFiles(): the loaded declarations
  outputDir,           \* the output directory: file name -> written text
  run,                 \* number of the current process (1, 2, ...)
  prevOutput,          \* the output directory as the previous run left it
  startSnapshot,       \* the registries as generateRustTypes found them
  exitCode,            \* <<>> while the process runs, then <<its exit code>>
  \* --- one call of the lowering engine on its own
  input,               \* the Type handed to convertTypeToRustIR
  result,              \* the RustTypeIR it returned
  rendered,            \* the text rustTypeIRToString gave for it
  \* --- calls of the deduplicator on their own
  calls,               \* the (variants, name) pairs returned so far
  \* --- the Elm bridge module, in the browser
  window,              \* the browser's global object, as far as the bridge uses it
  state,               \* DaccadBridgeState
  initCalls,           \* the calls of initDaccadBridge: where each one is
  engines,             \* number of DaccadEngine objects constructed
  elmPc,               \* position of initWasmElmIntegration
  handlers,            \* the calls of handleFromElmMessage: where each one is
  toElm                \* the messages sent on the toElm port, in order

vars == <<typeAliasRegistry, generatedItems, todoTypes, todoUnionCounter,
          todoUnionCache, pc, fileIdx, sourceFiles, outputDir, run,
          prevOutput, startSnapshot, exitCode, input, result, rendered, calls,
          window, state, initCalls, engines, elmPc, handlers, toElm>>
bridgeVars == <<window, state, initCalls, engines, elmPc, handlers, toElm>>

(***************************************************************************)
(* Bounds of the model.                                                    *)
(***************************************************************************)
MaxVariants == 3     \* longest union drawn as an input
MaxTuple == 2        \* longest tuple drawn as an input
MaxCalls == 3        \* calls of the deduplicator in the call-level model
MaxRuns == 2         \* runs of the generator over the same input
MaxDecls == 2        \* declarations in the declaration files of a run
MaxInitCalls == 2    \* calls of initDaccadBridge
MaxMessages == 2     \* messages received on the fromElm port

(***************************************************************************)
(* The Elm bridge module as it is loaded (wasm-daccad-bridge.ts, lines     *)
(* 34-43): no call made, nothing received, nothing sent.                   *)
(***************************************************************************)
Uninitialized == [status |-> "uninitialized"]
\* A window is a web page's or a Tauri webview's; manifoldBridge is the
\* initDaccadBridge call that installed it, 0 while there is none.
Windows == [TAURI : BOOLEAN, manifoldBridge : {0}]
BridgeLoaded ==
  /\ state = Uninitialized
  /\ initCalls = <<>>
  /\ engines = 0
  /\ elmPc = "idle"
  /\ handlers = <<>>
  /\ toElm = <<>>
BridgeIdle ==
  /\ BridgeLoaded
  /\ window = [TAURI |-> FALSE, manifoldBridge |-> 0]

(***************************************************************************)
(* Sequence helpers.                                                       *)
(***************************************************************************)
Range(s) == {s[i] : i \in 1..Len(s)}

RECURSIVE Flatten(_)
Flatten(ss) == IF ss = <<>> THEN <<>> ELSE Head(ss) \o Flatten(Tail(ss))

RECURSIVE JoinTokens(_, _)
JoinTokens(ss, sep) ==
  IF ss = <<>> THEN <<>>
  ELSE IF Len(ss) = 1 THEN ss[1]
  ELSE ss[1] \o <<sep>> \o JoinTokens(Tail(ss), sep)

\* A value computed once and used by the rest of a function body.
With(v, F(_)) == F(v)

RECURSIVE ConcatStrings(_)
ConcatStrings(toks) ==
  IF toks = <<>> THEN "" ELSE Head(toks) \o ConcatStrings(Tail(toks))

\* Sequences over S of length lo..hi without repeated elements.
InjectiveSeqs(S, lo, hi) ==
  UNION {{s \in [1..n -> S] : \A i, j \in 1..n : i # j => s[i] # s[j]} : n \in lo..hi}

(***************************************************************************)
(* RustTypeIR (lines 11-19).                                               *)
(***************************************************************************)
Primitive(n) == [kind |-> "primitive", name |-> n]
ArrayIR(e) == [kind |-> "array", element |-> e]
SizedArrayIR(e, n) == [kind |-> "array", element |-> e, size |-> n]
TupleIR(es) == [kind |-> "tuple", elements |-> es]
UnionIR(vs) == [kind |-> "union", variants |-> vs]
Named(n) == [kind |-> "named", name |-> n]
OptionIR(i) == [kind |-> "option", inner |-> i]
JsValue == [kind |-> "js_value"]
\* An exception escaping the function instead of a returned value.
Thrown == [kind |-> "throw"]

RustTypeIRKinds ==
  {"primitive", "array", "tuple", "union", "named", "generic", "option", "js_value"}

(***************************************************************************)
(* ts-morph Type objects, as the TypeScript checker hands them out.        *)
(***************************************************************************)
NoType == [defined |-> FALSE]

Plain(tokens) ==
  [defined |-> TRUE, text |-> tokens, isArray |-> FALSE, elementType |-> NoType,
   isTuple |-> FALSE, tupleElements |-> <<>>, isUnion |-> FALSE, unionTypes |-> <<>>]

\* A union or function type is rendered in parentheses as an element type.
ArrayOf(e) ==
  [Plain((IF "|" \in Range(e.text) \/ "=>" \in Range(e.text)
          THEN <<"(">> \o e.text \o <<")">> ELSE e.text) \o <<"[]">>)
     EXCEPT !.isArray = TRUE, !.elementType = e]

TupleOf(es) ==
  [Plain(<<"[">> \o JoinTokens([i \in 1..Len(es) |-> es[i].text], ",") \o <<"]">>)
     EXCEPT !.isTuple = TRUE, !.tupleElements = es]

\* A function type among the members of a union is rendered in parentheses.
MemberText(t) == IF "=>" \in Range(t.text) THEN <<"(">> \o t.text \o <<")">> ELSE t.text

\* The checker flattens the members that are themselves unions.
UnionOf(ms) ==
  [Plain(JoinTokens([i \in 1..Len(ms) |-> MemberText(ms[i])], "|"))
     EXCEPT !.isUnion = TRUE,
            !.unionTypes = Flatten([i \in 1..Len(ms) |->
                              IF ms[i].isUnion THEN ms[i].unionTypes ELSE <<ms[i]>>])]

\* A type reached through an alias is rendered by the alias's name.
AliasRef(name, t) == [t EXCEPT !.text = <<name>>]

\* A type rendered with the import path of its declaring module.
Imported(t) == [t EXCEPT !.text = <<"import(\"manifold\").">> \o t.text]


(***************************************************************************)
(* String operations of the lowering engine, on token sequences.           *)
(***************************************************************************)
\* text.replace(/import\([^)]*\)\./g, '')
StripImports(tokens) == SelectSeq(tokens, LAMBDA tok : tok # "import(\"manifold\").")

\* text.split(sep): the pieces between the separators, at any nesting depth.
RECURSIVE SplitOn(_, _)
SplitOn(tokens, sep) ==
  IF \A i \in 1..Len(tokens) : tokens[i] # sep THEN <<tokens>>
  ELSE LET k == CHOOSE i \in 1..Len(tokens) :
                  tokens[i] = sep /\ \A j \in 1..(i - 1) : tokens[j] # sep
       IN <<SubSeq(tokens, 1, k - 1)>> \o SplitOn(SubSeq(tokens, k + 1, Len(tokens)), sep)

\* cleanedName.endsWith(`.${aliasName}`)
EndsWithDotted(tokens, aliasName) ==
  /\ Len(tokens) >= 2
  /\ tokens[Len(tokens)] = aliasName
  /\ tokens[Len(tokens) - 1] = "."

(***************************************************************************)
(* convertPrimitiveToIR (lines 521-530); NoIR is its null.                 *)
(***************************************************************************)
NoIR == [kind |-> "null"]

convertPrimitiveToIR(typeText) ==
  IF Len(typeText) # 1 THEN NoIR
  ELSE CASE typeText[1] = "string" -> Primitive("String")
         [] typeText[1] = "number" -> Primitive("f64")
         [] typeText[1] = "boolean" -> Primitive("bool")
         [] typeText[1] = "void" -> Primitive("()")
         [] typeText[1] = "undefined" -> Primitive("()")
         [] OTHER -> NoIR

(***************************************************************************)
(* convertTypeToRustIR (lines 393-519).                                    *)
(***************************************************************************)
\* line 394: the value returned for a missing type.
MissingTypeThrows == Thrown
MissingTypeIR == Primitive("()")

\* lines 416-427: a tuple of equal primitives becomes a fixed-size array.
TupleAlwaysTuple(rustElements) == TupleIR(rustElements)
TupleToIR(rustElements) ==
  IF /\ Len(rustElements) > 0
     /\ \A i \in 1..Len(rustElements) : rustElements[i].kind = "primitive"
     /\ \A i \in 1..Len(rustElements) :
          /\ rustElements[i].kind = "primitive"
          /\ rustElements[1].kind = "primitive"
          /\ rustElements[i].name = rustElements[1].name
  THEN SizedArrayIR(rustElements[1], Len(rustElements))
  ELSE TupleIR(rustElements)

\* lines 452-461 and 467-476: Option<T> for (T | undefined), else Union.
\* find() returns the first match; `v !== undefinedVariant` compares objects,
\* so the inner type is the first variant at another position.
IsUnit(v) == v.kind = "primitive" /\ v.name = "()"
OptionOnlyWhenUnitLast(variants) ==
  IF Len(variants) = 2 /\ IsUnit(variants[2]) THEN OptionIR(variants[1])
  ELSE UnionIR(variants)
OptionWheneverUnit(variants) ==
  IF \E i \in 1..Len(variants) : IsUnit(variants[i])
  THEN OptionIR(variants[CHOOSE i \in 1..Len(variants) :
                           ~IsUnit(variants[i]) \/ \A j \in 1..Len(variants) : IsUnit(variants[j])])
  ELSE UnionIR(variants)
OptionOrUnion(variants) ==
  IF (\E i \in 1..Len(variants) : IsUnit(variants[i])) /\ Len(variants) = 2
  THEN LET u == CHOOSE i \in 1..Len(variants) :
                  IsUnit(variants[i]) /\ \A j \in 1..(i - 1) : ~IsUnit(variants[j])
           o == CHOOSE i \in 1..Len(variants) :
                  i # u /\ \A j \in 1..(i - 1) : j = u
       IN OptionIR(variants[o])
  ELSE UnionIR(variants)

\* lines 436-437
UnionParts(typeText) ==
  LET raw == SplitOn(typeText, "|")
  IN [i \in 1..Len(raw) |-> StripImports(raw[i])]
NoKnownAliases(unionParts) == FALSE
HasKnownAliases(unionParts) ==
  \E i \in 1..Len(unionParts) : ConcatStrings(unionParts[i]) \in DOMAIN typeAliasRegistry

\* lines 441-450: a variant of the alias-preserving path, from its text.
AliasPathVariant(part) ==
  IF ConcatStrings(part) \in DOMAIN typeAliasRegistry THEN Named(ConcatStrings(part))
  ELSE IF convertPrimitiveToIR(part) # NoIR THEN convertPrimitiveToIR(part)
  ELSE Named(ConcatStrings(part))

\* lines 499-518: the named fallback.
NamedFallback(typeText) ==
  LET cleanedName == StripImports(typeText)
      hits == {a \in DOMAIN typeAliasRegistry :
                 ConcatStrings(cleanedName) = a \/ EndsWithDotted(cleanedName, a)}
  IN IF hits # {} THEN Named(CHOOSE a \in hits : TRUE)
     ELSE Named(ConcatStrings(cleanedName))

RECURSIVE FunctionBeforeUnion(_)
FunctionBeforeUnion(type) ==
  IF ~type.defined THEN MissingTypeIR
  ELSE IF convertPrimitiveToIR(type.text) # NoIR THEN convertPrimitiveToIR(type.text)
  ELSE IF "=>" \in Range(type.text) THEN Named("fn()")
  ELSE IF type.isArray /\ type.elementType.defined
    THEN ArrayIR(FunctionBeforeUnion(type.elementType))
  ELSE IF type.isTuple
    THEN TupleToIR([i \in 1..Len(type.tupleElements) |->
                      FunctionBeforeUnion(type.tupleElements[i])])
  ELSE IF type.isUnion
    THEN IF HasKnownAliases(UnionParts(type.text))
         THEN OptionOrUnion([i \in 1..Len(UnionParts(type.text)) |->
                               AliasPathVariant(UnionParts(type.text)[i])])
         ELSE OptionOrUnion([i \in 1..Len(type.unionTypes) |->
                               FunctionBeforeUnion(type.unionTypes[i])])
  ELSE IF Len(type.text) > 0 /\ type.text[1] = "typeof "
    THEN Named(ConcatStrings(StripImports(Tail(type.text))))
  ELSE NamedFallback(type.text)

RECURSIVE convertTypeToRustIR(_)
convertTypeToRustIR(type) ==
  IF ~type.defined THEN MissingTypeIR
  ELSE
  LET typeText == type.text
      primitiveResult == convertPrimitiveToIR(typeText)
  IN
  IF primitiveResult # NoIR THEN primitiveResult
  ELSE IF type.isArray /\ type.elementType.defined
    THEN ArrayIR(convertTypeToRustIR(type.elementType))
  ELSE IF type.isTuple
    THEN TupleToIR([i \in 1..Len(type.tupleElements) |->
                      convertTypeToRustIR(type.tupleElements[i])])
  ELSE IF type.isUnion
    THEN LET unionParts == UnionParts(typeText)
         IN IF HasKnownAliases(unionParts)
            THEN OptionOrUnion([i \in 1..Len(unionParts) |-> AliasPathVariant(unionParts[i])])
            ELSE OptionOrUnion([i \in 1..Len(type.unionTypes) |->
                                  convertTypeToRustIR(type.unionTypes[i])])
  ELSE IF Len(typeText) > 0 /\ typeText[1] = "typeof "
    THEN Named(ConcatStrings(StripImports(Tail(typeText))))
  ELSE IF "=>" \in Range(typeText)
    THEN Named("fn()")
  ELSE NamedFallback(typeText)


(***************************************************************************)
(* Maps.  A Map<K,V> whose iteration order matters is a sequence of        *)
(* [key, value] entries in insertion order; set() on a present key         *)
(* replaces the value in place.                                            *)
(***************************************************************************)
EmptyMap == [x \in {} |-> x]
MapSet(m, k, v) == [x \in DOMAIN m \cup {k} |-> IF x = k THEN v ELSE m[x]]

Keys(om) == {om[i].key : i \in 1..Len(om)}
OMapGet(om, k) == om[CHOOSE i \in 1..Len(om) : om[i].key = k].value
OMapSetKeepsFirst(om, k, v) ==
  IF k \in Keys(om) THEN om ELSE Append(om, [key |-> k, value |-> v])
OMapSet(om, k, v) ==
  IF k \in Keys(om)
  THEN [i \in 1..Len(om) |-> IF om[i].key = k THEN [key |-> k, value |-> v] ELSE om[i]]
  ELSE Append(om, [key |-> k, value |-> v])

(***************************************************************************)
(* JSON.stringify of a RustTypeIR and the order Array.prototype.sort puts  *)
(* the strings in (by UTF-16 code unit).                                   *)
(***************************************************************************)
RECURSIVE JSONstringify(_)
RECURSIVE JSONstringifyAll(_)
JSONstringifyAll(irs) ==
  IF irs = <<>> THEN ""
  ELSE IF Len(irs) = 1 THEN JSONstringify(irs[1])
  ELSE JSONstringify(irs[1]) \o "," \o JSONstringifyAll(Tail(irs))
JSONstringify(v) ==
  CASE v.kind = "primitive" ->
         "{\"kind\":\"primitive\",\"name\":\"" \o v.name \o "\"}"
    [] v.kind = "named" ->
         "{\"kind\":\"named\",\"name\":\"" \o v.name \o "\"}"
    [] v.kind = "array" ->
         "{\"kind\":\"array\",\"element\":" \o JSONstringify(v.element)
           \o (IF "size" \in DOMAIN v THEN ",\"size\":" \o ToString(v.size) ELSE "") \o "}"
    [] v.kind = "tuple" ->
         "{\"kind\":\"tuple\",\"elements\":[" \o JSONstringifyAll(v.elements) \o "]}"
    [] v.kind = "union" ->
         "{\"kind\":\"union\",\"variants\":[" \o JSONstringifyAll(v.variants) \o "]}"
    [] v.kind = "option" ->
         "{\"kind\":\"option\",\"inner\":" \o JSONstringify(v.inner) \o "}"
    [] v.kind = "js_value" -> "{\"kind\":\"js_value\"}"

\* The names that occur in the model's IR values, in code-unit order.
NameOrder ==
  <<"(()=>void)", "((x:number)=>void)", "()", "Box", "CrossSection", "ErrorStatus", "FillRule", "Foo", "M.Polygons", "Mesh", "Polygons", "SimplePolygon", "SimplePolygon[]", "String", "Vec2", "bool", "f64", "fn()", "number", "number[]", "string",
    "typeof CrossSection">>
NameRank(n) == CHOOSE i \in 1..Len(NameOrder) : NameOrder[i] = n

\* A key whose lexicographic order is the order of the JSON strings: the
\* strings differ first at the kind, then at the name or at the first
\* differing component; ',' sorts before ']' and '}', and ']' before '{'.
KindRank(k) ==
  CASE k = "array" -> 1 [] k = "js_value" -> 3 [] k = "named" -> 4
    [] k = "option" -> 5 [] k = "primitive" -> 6 [] k = "tuple" -> 7 [] k = "union" -> 8

RECURSIVE JsonKey(_)
RECURSIVE JsonKeyList(_, _)
JsonKeyList(irs, first) ==
  IF irs = <<>> THEN <<1>>
  ELSE <<IF first THEN 2 ELSE 0>> \o JsonKey(irs[1]) \o JsonKeyList(Tail(irs), FALSE)
JsonKey(v) ==
  <<KindRank(v.kind)>> \o
  CASE v.kind \in {"primitive", "named"} -> <<NameRank(v.name)>>
    [] v.kind = "array" ->
         JsonKey(v.element) \o (IF "size" \in DOMAIN v THEN <<0, v.size>> ELSE <<1>>)
    [] v.kind = "tuple" -> JsonKeyList(v.elements, TRUE)
    [] v.kind = "union" -> JsonKeyList(v.variants, TRUE)
    [] v.kind = "option" -> JsonKey(v.inner)
    [] v.kind = "js_value" -> <<>>

RECURSIVE LexLess(_, _)
LexLess(a, b) ==
  IF b = <<>> THEN FALSE
  ELSE IF a = <<>> THEN TRUE
  ELSE IF a[1] # b[1] THEN a[1] < b[1]
  ELSE LexLess(Tail(a), Tail(b))

JsonLess(v, w) == LexLess(JsonKey(v), JsonKey(w))

\* .sort(): insertion of each element after the elements not greater than it.
RECURSIVE SortByJson(_)
InsertByJson(v, sorted) ==
  LET k == Cardinality({i \in 1..Len(sorted) : ~JsonLess(v, sorted[i])})
  IN SubSeq(sorted, 1, k) \o <<v>> \o SubSeq(sorted, k + 1, Len(sorted))
SortByJson(vs) ==
  IF vs = <<>> THEN <<>> ELSE InsertByJson(vs[Len(vs)], SortByJson(SubSeq(vs, 1, Len(vs) - 1)))

(***************************************************************************)
(* The placeholder-union deduplicator (lines 612-649).  The operators take *)
(* and return the module state they touch:                                 *)
(*   st = [counter, cache, types].                                         *)
(***************************************************************************)
\* (n).toString().padStart(3, '0')
\* lines 618-620
IdWithoutIncrement(st) ==
  [id |-> IF st.counter < 10 THEN "00" \o ToString(st.counter)
          ELSE IF st.counter < 100 THEN "0" \o ToString(st.counter)
          ELSE ToString(st.counter),
   st |-> st]
getNextTodoUnionId(st) ==
  [id |-> IF st.counter < 10 THEN "00" \o ToString(st.counter)
          ELSE IF st.counter < 100 THEN "0" \o ToString(st.counter)
          ELSE ToString(st.counter),
   st |-> [st EXCEPT !.counter = @ + 1]]

\* lines 644-649
registerTodoType(typeName, variants, st) ==
  IF typeName \notin Keys(st.types)
  THEN [st EXCEPT !.types = Append(@, [key |-> typeName, value |-> variants])]
  ELSE st

\* lines 624-627: map(JSON.stringify).sort().join('|')
RECURSIVE JoinStrings(_, _)
JoinStrings(ss, sep) ==
  IF ss = <<>> THEN ""
  ELSE IF Len(ss) = 1 THEN ss[1]
  ELSE ss[1] \o sep \o JoinStrings(Tail(ss), sep)
UnsortedSignature(variants) ==
  JoinStrings([i \in 1..Len(variants) |-> JSONstringify(variants[i])], "|")
Signature(variants) ==
  LET sorted == SortByJson(variants)
  IN JoinStrings([i \in 1..Len(sorted) |-> JSONstringify(sorted[i])], "|")

\* lines 622-642
getOrCreateTodoUnionName(variants, st) ==
  With(Signature(variants), LAMBDA signature :
    IF signature \in DOMAIN st.cache
    THEN [name |-> st.cache[signature], st |-> st]
    ELSE With(getNextTodoUnionId(st), LAMBDA next :
           With(<<"Todo", next.id, "Union">>, LAMBDA todoTypeName :
             [name |-> todoTypeName,
              st |-> registerTodoType(todoTypeName, variants,
                       [next.st EXCEPT !.cache = MapSet(@, signature, todoTypeName)])])))

(***************************************************************************)
(* rustTypeIRToString (lines 860-887): the text, and the module state      *)
(* after the placeholder names it asked for.                               *)
(***************************************************************************)
\* `typeIR.size ? ... : ...`
HasSize(typeIR) == "size" \in DOMAIN typeIR /\ typeIR.size # 0

RECURSIVE rustTypeIRToString(_, _)
RECURSIVE rustTypeIRsToStrings(_, _)
\* elements.map(rustTypeIRToString), left to right
rustTypeIRsToStrings(irs, st) ==
  IF irs = <<>> THEN [texts |-> <<>>, st |-> st]
  ELSE With(rustTypeIRToString(irs[1], st), LAMBDA h :
         With(rustTypeIRsToStrings(Tail(irs), h.st), LAMBDA t :
           [texts |-> <<h.text>> \o t.texts, st |-> t.st]))
rustTypeIRToString(typeIR, st) ==
  CASE typeIR.kind = "primitive" -> [text |-> <<typeIR.name>>, st |-> st]
    [] typeIR.kind = "array" ->
         With(rustTypeIRToString(typeIR.element, st), LAMBDA e :
           [text |-> IF HasSize(typeIR)
                     THEN <<"[">> \o e.text \o <<"; ", ToString(typeIR.size), "]">>
                     ELSE <<"Vec<">> \o e.text \o <<">">>,
            st |-> e.st])
    [] typeIR.kind = "tuple" ->
         With(rustTypeIRsToStrings(typeIR.elements, st), LAMBDA es :
           [text |-> <<"(">> \o JoinTokens(es.texts, ", ") \o <<")">>, st |-> es.st])
    [] typeIR.kind = "union" ->
         With(getOrCreateTodoUnionName(typeIR.variants, st), LAMBDA u :
           [text |-> u.name, st |-> u.st])
    [] typeIR.kind = "named" -> [text |-> <<typeIR.name>>, st |-> st]
    [] typeIR.kind = "option" ->
         With(rustTypeIRToString(typeIR.inner, st), LAMBDA i :
           [text |-> <<"Option<">> \o i.text \o <<">">>, st |-> i.st])
    [] typeIR.kind = "js_value" -> [text |-> <<"wasm_bindgen", "::JsValue">>, st |-> st]
    [] OTHER -> [text |-> <<"()">>, st |-> st]

\* The module state of the deduplicator, as one value.
DedupState ==
  [counter |-> todoUnionCounter, cache |-> todoUnionCache, types |-> todoTypes]


(***************************************************************************)
(* Identifier casing.  An identifier or a string literal is a sequence of  *)
(* one-character strings where the code rewrites it by characters.         *)
(***************************************************************************)
UpperChars ==
  <<"A", "B", "C", "D", "E", "F", "G", "H", "I", "J", "K", "L", "M",
    "N", "O", "P", "Q", "R", "S", "T", "U", "V", "W", "X", "Y", "Z">>
LowerChars ==
  <<"a", "b", "c", "d", "e", "f", "g", "h", "i", "j", "k", "l", "m",
    "n", "o", "p", "q", "r", "s", "t", "u", "v", "w", "x", "y", "z">>
IsUpper(c) == c \in Range(UpperChars)
IsLower(c) == c \in Range(LowerChars)
ToLower(c) == IF IsUpper(c) THEN LowerChars[CHOOSE i \in 1..26 : UpperChars[i] = c] ELSE c
ToUpper(c) == IF IsLower(c) THEN UpperChars[CHOOSE i \in 1..26 : LowerChars[i] = c] ELSE c

\* lines 849-851: str.replace(/([A-Z])/g, "_$1").toLowerCase().replace(/^_/, "")
convertToSnakeCase(str) ==
  LET marked == Flatten([i \in 1..Len(str) |->
                           IF IsUpper(str[i]) THEN <<"_", str[i]>> ELSE <<str[i]>>])
      lowered == [i \in 1..Len(marked) |-> ToLower(marked[i])]
  IN ConcatStrings(IF lowered # <<>> /\ lowered[1] = "_" THEN Tail(lowered) ELSE lowered)

\* lines 597-610
IsSeparator(c) == c \in {" ", "_", "-"}
Capitalize(word) ==
  IF word = <<>> THEN <<>>
  ELSE <<ToUpper(word[1])>> \o [i \in 1..(Len(word) - 1) |-> ToLower(word[i + 1])]
toPascalCase(str) ==
  IF /\ str # <<>>
     /\ IsUpper(str[1])
     /\ \A i \in 1..Len(str) : IsUpper(str[i]) \/ IsLower(str[i])
  THEN ConcatStrings(str)
  ELSE LET spaced == Flatten([i \in 1..Len(str) |->
                                IF i > 1 /\ IsLower(str[i - 1]) /\ IsUpper(str[i])
                                THEN <<" ", str[i]>> ELSE <<str[i]>>])
           \* split(/[\s_-]+/): a word starts after a separator or at the start
           starts == {i \in 1..Len(spaced) :
                        ~IsSeparator(spaced[i]) /\ (i = 1 \/ IsSeparator(spaced[i - 1]))}
           WordAt(i) ==
             LET stop == {j \in i..Len(spaced) : IsSeparator(spaced[j])}
                 last == IF stop = {} THEN Len(spaced)
                         ELSE (CHOOSE j \in stop : \A k \in stop : j <= k) - 1
             IN SubSeq(spaced, i, last)
       IN ConcatStrings(Flatten([i \in 1..Len(spaced) |->
                                   IF i \in starts THEN Capitalize(WordAt(i)) ELSE <<>>]))

(***************************************************************************)
(* getFilePrefix (lines 48-58).  A file path is <<base name, ".d.ts">>;    *)
(* String.includes on a base name is decided from the known substrings.    *)
(***************************************************************************)
NameIncludes(fileName, part) ==
  \/ fileName = part
  \/ part = "manifold" /\ fileName \in {"manifold-global-types", "manifold-encapsulated-types"}

\* path.basename(filePath, '.d.ts')
Basename(filePath) == filePath[1]

UnknownFileIsManifold(filePath) ==
  LET fileName == Basename(filePath)
  IN IF NameIncludes(fileName, "manifold-global-types") THEN "Global"
     ELSE IF NameIncludes(fileName, "manifold-encapsulated-types") THEN "Encapsulated"
     ELSE "Manifold"
getFilePrefix(filePath) ==
  LET fileName == Basename(filePath)
  IN IF NameIncludes(fileName, "manifold-global-types") THEN "Global"
     ELSE IF NameIncludes(fileName, "manifold-encapsulated-types") THEN "Encapsulated"
     ELSE IF NameIncludes(fileName, "manifold") THEN "Manifold"
     ELSE "throw"

(***************************************************************************)
(* Declaration lowering (lines 154-388).  A declaration is a record of     *)
(* what the code reads from the ts-morph node; sourceFile is its file.     *)
(***************************************************************************)
NoItem == [kind |-> "no_item"]
StructDerives == <<"Debug", "Clone", "Serialize", "Deserialize">>

\* createProject (lines 36-44) sets strict: true: the checker's type of an
\* optional property or parameter is its declared type or undefined.
StrictNullChecks == TRUE
TypeOfNode(node) ==
  IF StrictNullChecks /\ node.optional
  THEN UnionOf(<<node.type, Plain(<<"undefined">>)>>)
  ELSE node.type

\* lines 180-184 and 338-342
FieldsOf(properties) ==
  [i \in 1..Len(properties) |->
     [name |-> convertToSnakeCase(properties[i].name),
      type |-> convertTypeToRustIR(TypeOfNode(properties[i])),
      optional |-> properties[i].optional]]

\* lines 154-192
processInterface(interfaceDecl, sourceFile) ==
  IF interfaceDecl.name = <<>> THEN NoItem
  ELSE IF getFilePrefix(sourceFile.path) = "throw" THEN Thrown
  ELSE IF ConcatStrings(interfaceDecl.name) = "SealedUint32Array"
    THEN [kind |-> "type_alias", name |-> ConcatStrings(interfaceDecl.name),
          target |-> Named("[u32; N]")]
  ELSE IF ConcatStrings(interfaceDecl.name) = "SealedFloat32Array"
    THEN [kind |-> "type_alias", name |-> ConcatStrings(interfaceDecl.name),
          target |-> Named("[f32; N]")]
  ELSE [kind |-> "struct", name |-> ConcatStrings(interfaceDecl.name),
        fields |-> FieldsOf(interfaceDecl.properties), derives |-> StructDerives]

\* lines 200-236: the aliases with a fixed lowering.
SpecialAliases == {"Vec2", "Vec3", "Mat3", "Mat4", "SimplePolygon", "Polygons"}
SpecialAliasTarget(name) ==
  CASE name = "Vec2" -> SizedArrayIR(Primitive("f64"), 2)
    [] name = "Vec3" -> SizedArrayIR(Primitive("f64"), 3)
    [] name = "Mat3" -> SizedArrayIR(Primitive("f64"), 9)
    [] name = "Mat4" -> SizedArrayIR(Primitive("f64"), 16)
    [] name = "SimplePolygon" -> ArrayIR(Named("Vec2"))
    [] name = "Polygons" -> ArrayIR(Named("SimplePolygon"))

\* lines 194-257
processTypeAlias(typeAlias, sourceFile) ==
  LET name == ConcatStrings(typeAlias.name)
      fileName == getFilePrefix(sourceFile.path)
  IN IF fileName = "throw" THEN Thrown
     ELSE IF name \in SpecialAliases
       THEN [kind |-> "type_alias", name |-> name, target |-> SpecialAliasTarget(name)]
     ELSE LET convertedTypeIR == convertTypeToRustIR(typeAlias.type)
          IN IF /\ fileName = "Manifold"
                /\ convertedTypeIR.kind = "named"
                /\ convertedTypeIR.name = name
             THEN [kind |-> "type_alias", name |-> name, target |-> JsValue]
             ELSE [kind |-> "type_alias", name |-> name, target |-> convertedTypeIR]

\* lines 281-288, 304-307, 323-326
ArgsOf(params) ==
  [i \in 1..Len(params) |->
     [name |-> convertToSnakeCase(params[i].name),
      type |-> convertTypeToRustIR(TypeOfNode(params[i]))]]

\* line 283: the log line renders every constructor parameter's type.
ConstructorParamTypes(constructors) ==
  Flatten([c \in 1..Len(constructors) |->
             [i \in 1..Len(constructors[c]) |->
                convertTypeToRustIR(TypeOfNode(constructors[c][i]))]])

\* lines 276-336
MethodIR(className, member) ==
  [name |-> IF member.methodType = "constructor" THEN "new"
            ELSE convertToSnakeCase(member.name),
   args |-> ArgsOf(member.params),
   returnType |-> IF member.methodType = "constructor" THEN Named(className)
                  ELSE convertTypeToRustIR(member.returnType),
   methodType |-> member.methodType]
MethodsIR(classDecl) ==
  With([c \in 1..Len(classDecl.constructors) |->
          [methodType |-> "constructor", params |-> classDecl.constructors[c]]]
       \o [m \in 1..Len(classDecl.staticMethods) |->
          [methodType |-> "static", name |-> classDecl.staticMethods[m].name,
           params |-> classDecl.staticMethods[m].params,
           returnType |-> classDecl.staticMethods[m].returnType]]
       \o [m \in 1..Len(classDecl.methods) |->
          [methodType |-> "instance", name |-> classDecl.methods[m].name,
           params |-> classDecl.methods[m].params,
           returnType |-> classDecl.methods[m].returnType]],
       LAMBDA members :
         [i \in 1..Len(members) |-> MethodIR(ConcatStrings(classDecl.name), members[i])])

\* line 272
NeverEncapsulated(fileName) == FALSE
AlwaysEncapsulated(fileName) == TRUE
IsEncapsulatedType(fileName) == fileName = "Encapsulated"

\* lines 259-364: the item, and the module state after the log lines.
processClass(classDecl, sourceFile, st) ==
  IF classDecl.name = <<>> THEN [item |-> NoItem, st |-> st]
  ELSE IF getFilePrefix(sourceFile.path) = "throw" THEN [item |-> Thrown, st |-> st]
  ELSE IF IsEncapsulatedType(getFilePrefix(sourceFile.path))
    THEN [item |-> [kind |-> "extern_block", name |-> ConcatStrings(classDecl.name),
                    methods |-> MethodsIR(classDecl)],
          st |-> rustTypeIRsToStrings(ConstructorParamTypes(classDecl.constructors), st).st]
  ELSE IF Len(classDecl.properties) > 0
    THEN [item |-> [kind |-> "struct", name |-> ConcatStrings(classDecl.name),
                    fields |-> FieldsOf(classDecl.properties), derives |-> StructDerives],
          st |-> st]
  ELSE [item |-> [kind |-> "type_alias", name |-> ConcatStrings(classDecl.name),
                  target |-> JsValue],
        st |-> st]

\* lines 366-388
processEnum(enumDecl, sourceFile) ==
  IF getFilePrefix(sourceFile.path) = "throw" THEN Thrown
  ELSE [kind |-> "enum", name |-> ConcatStrings(enumDecl.name),
        variants |-> [i \in 1..Len(enumDecl.members) |-> ConcatStrings(enumDecl.members[i])],
        derives |-> <<"Debug", "Clone", "Copy", "PartialEq", "Eq", "Serialize", "Deserialize">>]

(***************************************************************************)
(* The registry pass (lines 541-595).                                      *)
(***************************************************************************)
\* `${sourceFile.getBaseName()}-${name}`
ItemKey(sourceFile, name) == sourceFile.path \o <<"-", name>>

\* The item map of a pass that an exception has ended.
Aborted == <<Thrown>>

\* lines 576-595
createEnumFromStringLiterals(sourceFile, name, stringLiterals, items) ==
  IF getFilePrefix(sourceFile.path) = "throw" THEN Aborted
  ELSE OMapSet(items, ItemKey(sourceFile, name),
               [kind |-> "enum", name |-> name,
                variants |-> [i \in 1..Len(stringLiterals) |-> toPascalCase(stringLiterals[i])],
                derives |-> StructDerives])

\* typeText.includes("SimplePolygon|SimplePolygon[]")
IncludesTokens(text, part) ==
  \E i \in 0..(Len(text) - Len(part)) : SubSeq(text, i + 1, i + Len(part)) = part

\* lines 561-565: the string literals among the members of a union node.
StringLiteralsOf(typeNode) ==
  LET lits == SelectSeq(typeNode.members, LAMBDA m : m.isStringLiteral)
  IN [i \in 1..Len(lits) |-> lits[i].value]

\* lines 550-556: what the registry records for an alias
RawText(name, typeText) == typeText
RegisteredText(name, typeText) ==
  IF name = "Polygons"
     /\ IncludesTokens(typeText, <<"SimplePolygon", "|", "SimplePolygon", "[]">>)
  THEN <<"SimplePolygon", "[]">>
  ELSE typeText

\* lines 543-573, for the aliases of one file from the k-th on: the registry
\* and the generated items after them.
RECURSIVE registerTypeAliases(_, _, _, _)
registerTypeAliases(sourceFile, k, registry, items) ==
  IF items = Aborted \/ k > Len(sourceFile.typeAliases)
  THEN [registry |-> registry, items |-> items]
  ELSE LET alias == sourceFile.typeAliases[k]
           name == ConcatStrings(alias.name)
           typeText == alias.typeNode.text
           registry1 ==
             IF typeText = <<>> THEN registry
             ELSE MapSet(registry, name, RegisteredText(name, typeText))
           stringLiterals == StringLiteralsOf(alias.typeNode)
           items1 ==
             IF /\ typeText # <<>>
                /\ alias.typeNode.isUnion
                /\ Len(stringLiterals) = Len(alias.typeNode.members)
                /\ Len(stringLiterals) > 1
             THEN createEnumFromStringLiterals(sourceFile, name, stringLiterals, items)
             ELSE items
       IN registerTypeAliases(sourceFile, k + 1, registry1, items1)

(***************************************************************************)
(* Emission of items (lines 890-958).  Each operator returns the text and  *)
(* the module state after the placeholder names the text asked for.        *)
(***************************************************************************)
DerivesLine(item) ==
  IF item.derives # <<>>
  THEN <<"#[derive(">> \o JoinTokens([i \in 1..Len(item.derives) |-> <<item.derives[i]>>], ", ")
         \o <<")]\n">>
  ELSE <<>>

\* lines 895-900, for the fields in order
RECURSIVE FieldsToString(_, _)
FieldsToString(fields, st) ==
  IF fields = <<>> THEN [text |-> <<>>, st |-> st]
  ELSE With(rustTypeIRToString(fields[1].type, st), LAMBDA t :
         With(FieldsToString(Tail(fields), t.st), LAMBDA rest :
           [text |-> <<"    pub ", fields[1].name, ": ">>
                       \o (IF fields[1].optional THEN <<"Option<">> \o t.text \o <<">">>
                           ELSE t.text)
                       \o <<",\n">> \o rest.text,
            st |-> rest.st]))

\* lines 931-936: a method descriptor has no `optional`, so no argument is wrapped
RECURSIVE ArgsToStrings(_, _)
ArgsToStrings(args, st) ==
  IF args = <<>> THEN [texts |-> <<>>, st |-> st]
  ELSE With(rustTypeIRToString(args[1].type, st), LAMBDA t :
         With(ArgsToStrings(Tail(args), t.st), LAMBDA rest :
           [texts |-> <<(<<args[1].name, ": ">> \o t.text)>> \o rest.texts,
            st |-> rest.st]))

\* lines 920-940, for the methods in order
RECURSIVE MethodsToString(_, _, _)
MethodHead(item, method) ==
  IF method.methodType = "constructor"
  THEN <<"    #[", "wasm_bindgen", "(constructor)]\n", "    fn new(">>
  ELSE IF method.methodType = "static"
  THEN <<"    #[", "wasm_bindgen", "(static_method_of = ", item.name,
         ", js_name = ", method.name, ")]\n", "    fn ", method.name, "(">>
  ELSE <<"    #[", "wasm_bindgen", "(method)]\n", "    fn ", method.name,
         "(this: &", item.name>>
       \o (IF Len(method.args) > 0 THEN <<", ">> ELSE <<>>)
MethodsToString(item, methods, st) ==
  IF methods = <<>> THEN [text |-> <<>>, st |-> st]
  ELSE With(ArgsToStrings(methods[1].args, st), LAMBDA a :
         With(rustTypeIRToString(methods[1].returnType, a.st), LAMBDA r :
           With(MethodsToString(item, Tail(methods), r.st), LAMBDA rest :
             [text |-> MethodHead(item, methods[1]) \o JoinTokens(a.texts, ", ")
                         \o <<") -> ">> \o r.text \o <<";\n\n">> \o rest.text,
              st |-> rest.st])))

\* The identifiers of the declarations, by characters (for startsWith and
\* includes on a name).
RECURSIVE CharsOfName(_, _)
CharsOfName(name, known) ==
  IF known = {} THEN <<name>>
  ELSE LET n == CHOOSE x \in known : TRUE
       IN IF ConcatStrings(n) = name THEN n ELSE CharsOfName(name, known \ {n})

\* item.name.startsWith("Global")
StartsWith(chars, prefix) ==
  Len(chars) >= Len(prefix) /\ SubSeq(chars, 1, Len(prefix)) = prefix

\* lines 890-958
rustItemToString(item, known, st) ==
  CASE item.kind = "struct" ->
         With(FieldsToString(item.fields, st), LAMBDA f :
           [text |-> DerivesLine(item) \o <<"pub struct ", item.name, " {\n">>
                       \o f.text \o <<"}\n\n">>,
            st |-> f.st])
    [] item.kind = "enum" ->
         With(StartsWith(CharsOfName(item.name, known),
                         <<"G", "l", "o", "b", "a", "l">>), LAMBDA isGlobalEnum :
           [text |-> DerivesLine(item) \o <<"pub enum ", item.name, " {\n">>
                       \o Flatten([i \in 1..Len(item.variants) |->
                                     IF isGlobalEnum
                                     THEN <<"    ", item.variants[i], " = \"",
                                            item.variants[i], "\",\n">>
                                     ELSE <<"    ", item.variants[i], ",\n">>])
                       \o <<"}\n\n">>,
            st |-> st])
    [] item.kind = "extern_block" ->
         With(MethodsToString(item, item.methods, st), LAMBDA m :
           [text |-> <<"#[", "wasm_bindgen", "]\nextern \"C\" {\n",
                       "    type ", item.name, ";\n\n">> \o m.text \o <<"}\n\n">>,
            st |-> m.st])
    [] item.kind = "type_alias" ->
         With(rustTypeIRToString(item.target, st), LAMBDA t :
           [text |-> <<"pub type ", item.name, " = ">> \o t.text \o <<";\n\n">>,
            st |-> t.st])
    [] OTHER -> [text |-> <<>>, st |-> st]

\* items.map(rustItemToString).join("")
RECURSIVE rustItemsToString(_, _, _)
rustItemsToString(items, known, st) ==
  IF items = <<>> THEN [text |-> <<>>, st |-> st]
  ELSE With(rustItemToString(items[1], known, st), LAMBDA h :
         With(rustItemsToString(Tail(items), known, h.st), LAMBDA t :
           [text |-> h.text \o t.text, st |-> t.st]))

(***************************************************************************)
(* Output files (lines 960-1074).                                          *)
(***************************************************************************)
\* lines 970-979
GroupByManifoldFirst(key) ==
  IF \E i \in 1..Len(key) : NameIncludes(key[i], "manifold")
    THEN "manifold.d.ts"
  ELSE "unknown"
GroupFileName(key) ==
  IF \E i \in 1..Len(key) : NameIncludes(key[i], "manifold-global-types")
    THEN "manifold-global-types.d.ts"
  ELSE IF \E i \in 1..Len(key) : NameIncludes(key[i], "manifold-encapsulated-types")
    THEN "manifold-encapsulated-types.d.ts"
  ELSE IF Len(key) >= 3 /\ SubSeq(key, 1, 3) = <<"manifold", ".d.ts", "-">>
    THEN "manifold.d.ts"
  ELSE "unknown"

\* lines 966-985: fileGroups, in the order the file names first appear
RECURSIVE fileGroups(_)
fileGroups(items) ==
  IF items = <<>> THEN <<>>
  ELSE LET before == fileGroups(SubSeq(items, 1, Len(items) - 1))
           last == items[Len(items)]
           fileName == GroupFileName(last.key)
       IN IF fileName \in Keys(before)
          THEN OMapSet(before, fileName, Append(OMapGet(before, fileName), last.value))
          ELSE Append(before, [key |-> fileName, value |-> <<last.value>>])

\* lines 1063-1074
getOutputFileName(sourceFileName) ==
  CASE sourceFileName = "manifold-global-types.d.ts" -> "global_types.rs"
    [] sourceFileName = "manifold-encapsulated-types.d.ts" -> "encapsulated_types.rs"
    [] sourceFileName = "manifold.d.ts" -> "manifold_main.rs"
    [] OTHER -> "unknown.rs"

\* allCode.includes(marker)
MarkerChars(marker) ==
  CASE marker = "wasm_bindgen" -> <<"w", "a", "s", "m", "_", "b", "i", "n", "d", "g", "e", "n">>
    [] marker = "Serialize" -> <<"S", "e", "r", "i", "a", "l", "i", "z", "e">>
    [] marker = "Deserialize" -> <<"D", "e", "s", "e", "r", "i", "a", "l", "i", "z", "e">>
    [] marker = "HashMap" -> <<"H", "a", "s", "h", "M", "a", "p">>
    [] marker = "Debug" -> <<"D", "e", "b", "u", "g">>
    [] marker = "Todo" -> <<"T", "o", "d", "o">>
CodeIncludes(allCode, marker, known) ==
  \/ marker \in Range(allCode)
  \/ \E name \in known :
       IncludesTokens(name, MarkerChars(marker)) /\ ConcatStrings(name) \in Range(allCode)

\* lines 1001-1044: the file's text, and the module state after both renderings
\* lines 1006-1030: the import lines for the markers found in allCode
AllImportsAlways(allCode, known) ==
  <<"use wasm_bindgen::prelude::*;\n", "use serde::{Serialize, Deserialize};\n",
    "use std::collections::HashMap;\n", "use std::fmt::Debug;\n",
    "use super::todo_unions::*;\n">>
ImportLines(allCode, known) ==
  Flatten([i \in 1..5 |->
    With(<< <<{"wasm_bindgen"}, "use wasm_bindgen::prelude::*;\n">>,
            <<{"Serialize", "Deserialize"}, "use serde::{Serialize, Deserialize};\n">>,
            <<{"HashMap"}, "use std::collections::HashMap;\n">>,
            <<{"Debug"}, "use std::fmt::Debug;\n">>,
            <<{"Todo"}, "use super::todo_unions::*;\n">> >>[i], LAMBDA import :
      IF \E marker \in import[1] : CodeIncludes(allCode, marker, known)
      THEN <<import[2]>> ELSE <<>>)])
generateSingleRustFile(fileName, items, known, st) ==
  With(rustItemsToString(items, known, st), LAMBDA all :
    With(rustItemsToString(items, known, all.st), LAMBDA again :
      [name |-> getOutputFileName(fileName),
       text |-> <<"// Auto-generated Rust types from ", fileName, "\n\n">>
                  \o ImportLines(all.text, known) \o <<"\n">> \o again.text,
       st |-> again.st]))

\* lines 651-672
generateTodoUnionStruct(typeName, variants, st) ==
  With(rustTypeIRsToStrings(variants, st), LAMBDA vs :
  With(JoinTokens(vs.texts, " | "), LAMBDA variantsComment :
     [text |-> <<"// TODO: Implement proper union type for: ">> \o variantsComment
               \o <<"\n",
                    "// This is a placeholder struct - implement proper sum type or enum\n",
                    "#[derive(", "Debug", ", ", "Clone", ", ", "Serialize", ", ",
                    "Deserialize", ")]\n", "pub struct ">> \o typeName
               \o <<" {\n", "    // TODO: Replace with proper union implementation\n",
                    "    // Possible variants: ">> \o variantsComment
               \o <<"\n",
                    "    pub todo_data: String, // Placeholder - implement actual data structure\n",
                    "}\n\n", "impl ">> \o typeName
               \o <<" {\n", "    pub fn todo() -> Self {\n", "        Self {\n",
                    "            todo_data: \"TODO: Implement union type\".to_string()\n",
                    "        }\n", "    }\n", "}\n\n">>,
      st |-> vs.st]))

\* A loop over the entries todoTypes has when the loop starts.
RECURSIVE StructsUpTo(_, _, _)
StructsUpTo(i, n, st) ==
  IF i > n THEN [text |-> <<>>, st |-> st]
  ELSE With(generateTodoUnionStruct(st.types[i].key, st.types[i].value, st), LAMBDA h :
         With(StructsUpTo(i + 1, n, h.st), LAMBDA t :
           [text |-> h.text \o t.text, st |-> t.st]))
StructsOfSnapshot(i, st) == StructsUpTo(i, Len(st.types), st)

\* lines 1053-1055: the loop over todoTypes visits the entries in insertion
\* order, those added while it runs included.
RECURSIVE TodoUnionStructs(_, _)
TodoUnionStructs(i, st) ==
  IF i > Len(st.types) THEN [text |-> <<>>, st |-> st]
  ELSE With(generateTodoUnionStruct(st.types[i].key, st.types[i].value, st), LAMBDA h :
         With(TodoUnionStructs(i + 1, h.st), LAMBDA t :
           [text |-> h.text \o t.text, st |-> t.st]))

\* lines 1046-1061: the file's text (written only when todoTypes is not empty)
generateTodoUnionsFile(st) ==
  With(TodoUnionStructs(1, st), LAMBDA body :
    [written |-> Len(st.types) # 0,
     text |-> <<"// Auto-generated Todo Union types\n\n",
                "use serde::{Serialize, Deserialize};\n", "\n">> \o body.text,
     st |-> body.st])

(***************************************************************************)
(* The types the inputs are drawn from.                                    *)
(***************************************************************************)
tNumber == Plain(<<"number">>)
tString == Plain(<<"string">>)
tVoid == Plain(<<"void">>)
\* boolean is the union false | true for the checker, printed `boolean`
tBoolean ==
  [Plain(<<"boolean">>) EXCEPT !.isUnion = TRUE,
                              !.unionTypes = <<Plain(<<"false">>), Plain(<<"true">>)>>]
tUndefined == Plain(<<"undefined">>)
tCrossSection == Plain(<<"CrossSection">>)
tFnA == Plain(<<"()", "=>", "void">>)
tFnB == Plain(<<"(x:number)", "=>", "void">>)
tVec2 == AliasRef("Vec2", TupleOf(<<tNumber, tNumber>>))
tSimplePolygon == AliasRef("SimplePolygon", ArrayOf(tVec2))
tPolygons == AliasRef("Polygons", UnionOf(<<tSimplePolygon, ArrayOf(tSimplePolygon)>>))

AliasNames == {"Polygons", "Vec2"}
\* `type number = ...` is rejected by the checker, but it is parsed, and
\* registerTypeAliases records it.
KeywordAliasNames == {"number"}
\* What registerTypeAliases records for them (lines 550-556).
AliasText(n) ==
  IF n = "Polygons" THEN <<"SimplePolygon", "[]">> ELSE <<"[", "number", ",", "number", "]">>

UnionMembers ==
  {tNumber, tString, tUndefined, tVoid, tCrossSection, tPolygons, tFnA, ArrayOf(tNumber)}
TupleMembers == {tNumber, tString, tUndefined, tVoid, tCrossSection, tPolygons}

\* The types convertTypeToRustIR is called with in the call-level model.
LowerInputs ==
  {UnionOf(ms) : ms \in InjectiveSeqs(UnionMembers, 2, MaxVariants)}
    \cup {TupleOf(es) : es \in UNION {[1..n -> TupleMembers] : n \in 0..MaxTuple}}
    \cup
  {NoType, tNumber, tString, tBoolean, tVoid, tUndefined, tCrossSection, Imported(Plain(<<"Mesh">>)),
   Plain(<<"M", ".", "Polygons">>), tFnA, tFnB, Plain(<<"typeof ", "CrossSection">>), tVec2, tSimplePolygon, tPolygons}
    \cup {ArrayOf(e) : e \in UnionMembers}
    \cup {ArrayOf(UnionOf(<<tNumber, tUndefined>>)),
          TupleOf(<<UnionOf(<<tUndefined, tString>>), tNumber>>),
          TupleOf(<<tFnA, tNumber>>),
          UnionOf(<<Plain(<<"typeof ", "CrossSection">>), tNumber>>)}

\* The union types the deduplicator is called for in the call-level model:
\* unions of a class and function types (lowered from their member types),
\* and unions of a class and a registered alias (lowered from their text).
DedupInputs ==
  {u \in {UnionOf(ms) : ms \in InjectiveSeqs({tCrossSection, tFnA, tFnB}, 2, MaxVariants)
                               \cup InjectiveSeqs({tCrossSection, tPolygons}, 2, MaxVariants)} :
     convertTypeToRustIR(u).kind = "union"}

(***************************************************************************)
(* The state of a freshly loaded module (lines 532-539 and 612-616).       *)
(***************************************************************************)
NotStarted == [kind |-> "none"]

ModuleLoaded ==
  /\ typeAliasRegistry = EmptyMap
  /\ generatedItems = <<>>
  /\ todoTypes = <<>>
  /\ todoUnionCounter = 1
  /\ todoUnionCache = EmptyMap

PipelineIdle ==
  /\ fileIdx = 0
  /\ sourceFiles = <<>>
  /\ outputDir = EmptyMap
  /\ run = 0
  /\ prevOutput = EmptyMap
  /\ startSnapshot = NotStarted
  /\ exitCode = <<>>

pipelineVars == <<generatedItems, fileIdx, sourceFiles, outputDir, run, prevOutput,
                  startSnapshot, exitCode>>
dedupVars == <<todoTypes, todoUnionCounter, todoUnionCache>>

SetDedupState(st) ==
  /\ todoUnionCounter' = st.counter
  /\ todoUnionCache' = st.cache
  /\ todoTypes' = st.types

(***************************************************************************)
(* SpecLower: one call of convertTypeToRustIR on a drawn type, under a     *)
(* drawn registry, and the rendering of what it returned.                  *)
(***************************************************************************)
InitLower ==
  /\ generatedItems = <<>> /\ todoTypes = <<>>
  /\ todoUnionCounter = 1 /\ todoUnionCache = EmptyMap
  /\ typeAliasRegistry \in {[n \in S |-> AliasText(n)] :
                             S \in SUBSET (AliasNames \cup KeywordAliasNames)}
  /\ PipelineIdle
  /\ pc = "call"
  /\ input \in LowerInputs
  /\ result = NotStarted
  /\ rendered = <<>>
  /\ calls = <<>>
  /\ BridgeIdle

LowerType ==
  /\ pc = "call"
  /\ result' = convertTypeToRustIR(input)
  /\ pc' = "returned"
  /\ UNCHANGED <<typeAliasRegistry, pipelineVars, dedupVars, input, rendered, calls>>
  /\ UNCHANGED bridgeVars

RenderType ==
  /\ pc = "returned"
  /\ result.kind \in RustTypeIRKinds
  /\ LET r == rustTypeIRToString(result, DedupState)
     IN /\ rendered' = r.text
        /\ SetDedupState(r.st)
  /\ pc' = "rendered"
  /\ UNCHANGED <<typeAliasRegistry, pipelineVars, input, result, calls>>
  /\ UNCHANGED bridgeVars

NextLower == LowerType \/ RenderType
SpecLower == InitLower /\ [][NextLower]_vars

(***************************************************************************)
(* SpecDedup: a sequence of calls of getOrCreateTodoUnionName, each with   *)
(* the variant list of a lowered union, as rustTypeIRToString makes them.  *)
(***************************************************************************)
InitDedup ==
  /\ typeAliasRegistry = [n \in AliasNames |-> AliasText(n)]
  /\ generatedItems = <<>> /\ todoTypes = <<>>
  /\ todoUnionCounter = 1 /\ todoUnionCache = EmptyMap
  /\ PipelineIdle
  /\ pc = "dedup"
  /\ input = NoType
  /\ result = NotStarted
  /\ rendered = <<>>
  /\ calls = <<>>
  /\ BridgeIdle

CallGetOrCreate ==
  /\ pc = "dedup"
  /\ Len(calls) < MaxCalls
  /\ \E u \in DedupInputs :
       LET variants == convertTypeToRustIR(u).variants
           r == getOrCreateTodoUnionName(variants, DedupState)
       IN /\ SetDedupState(r.st)
          /\ calls' = Append(calls, [variants |-> variants, name |-> r.name])
  /\ UNCHANGED <<typeAliasRegistry, pipelineVars, pc, input, result, rendered>>
  /\ UNCHANGED bridgeVars

NextDedup == CallGetOrCreate
SpecDedup == InitDedup /\ [][NextDedup]_vars

(***************************************************************************)
(* The declaration files the pipeline is run on.  A file is a record of    *)
(* its path and of the declarations ts-morph returns for it, in order.     *)
(***************************************************************************)
LiteralType(chars) == Plain(<<"\"" \o ConcatStrings(chars) \o "\"">>)

\* The characters of the identifiers and string literals of the declarations.
Chars(name) ==
  CASE name = "FillRule" -> <<"F", "i", "l", "l", "R", "u", "l", "e">>
    [] name = "EvenOdd" -> <<"E", "v", "e", "n", "O", "d", "d">>
    [] name = "non_zero" -> <<"n", "o", "n", "_", "z", "e", "r", "o">>
    [] name = "Vec2" -> <<"V", "e", "c", "2">>
    [] name = "Handle" -> <<"H", "a", "n", "d", "l", "e">>
    [] name = "Foo" -> <<"F", "o", "o">>
    [] name = "bar" -> <<"b", "a", "r">>
    [] name = "Opts" -> <<"O", "p", "t", "s">>
    [] name = "at" -> <<"a", "t">>
    [] name = "altAt" -> <<"a", "l", "t", "A", "t">>
    [] name = "Box" -> <<"B", "o", "x">>
    [] name = "width" -> <<"w", "i", "d", "t", "h">>
    [] name = "height" -> <<"h", "e", "i", "g", "h", "t">>
    [] name = "volume" -> <<"v", "o", "l", "u", "m", "e">>
    [] name = "depth" -> <<"d", "e", "p", "t", "h">>
    [] name = "Shape" -> <<"S", "h", "a", "p", "e">>
    [] name = "size" -> <<"s", "i", "z", "e">>
    [] name = "scale" -> <<"s", "c", "a", "l", "e">>
    [] name = "Mesh" -> <<"M", "e", "s", "h">>
    [] name = "numProp" -> <<"n", "u", "m", "P", "r", "o", "p">>
    [] name = "ErrorStatus" -> <<"E", "r", "r", "o", "r", "S", "t", "a", "t", "u", "s">>
    [] name = "NoError" -> <<"N", "o", "E", "r", "r", "o", "r">>
    [] name = "notManifold" -> <<"n", "o", "t", "M", "a", "n", "i", "f", "o", "l", "d">>
    [] name = "Grid" -> <<"G", "r", "i", "d">>
    [] name = "Nest" -> <<"N", "e", "s", "t">>
    [] name = "items" -> <<"i", "t", "e", "m", "s">>
    [] name = "Polygons" -> <<"P", "o", "l", "y", "g", "o", "n", "s">>
    [] name = "SimplePolygon" -> <<"S", "i", "m", "p", "l", "e", "P", "o", "l", "y", "g", "o", "n">>
    [] name = "unit" -> <<"u", "n", "i", "t">>
    [] name = "area" -> <<"a", "r", "e", "a">>
KnownNames ==
  {Chars(name) : name \in
     {"FillRule", "EvenOdd", "non_zero", "Vec2", "Handle", "Foo", "bar", "Opts", "at", "altAt", "Box", "width", "height", "volume", "depth", "Shape", "size", "scale", "Mesh", "numProp", "ErrorStatus", "NoError", "notManifold", "Grid", "unit", "area", "Polygons", "SimplePolygon", "Nest", "items"}}

Node(name, type, optional) == [name |-> name, type |-> type, optional |-> optional]

\* type FillRule = "EvenOdd" | "non_zero";
dFillRule ==
  [name |-> Chars("FillRule"),
   typeNode |-> [text |-> <<"\"EvenOdd\"", "|", "\"non_zero\"">>, isUnion |-> TRUE,
                 members |-> <<[isStringLiteral |-> TRUE, value |-> Chars("EvenOdd")],
                               [isStringLiteral |-> TRUE, value |-> Chars("non_zero")]>>],
   type |-> AliasRef("FillRule", UnionOf(<<LiteralType(Chars("EvenOdd")), LiteralType(Chars("non_zero"))>>))]
\* type Vec2 = [number, number];
dVec2 ==
  [name |-> Chars("Vec2"),
   typeNode |-> [text |-> AliasText("Vec2"), isUnion |-> FALSE, members |-> <<>>],
   type |-> tVec2]
\* type SimplePolygon = Vec2[];
dSimplePolygon ==
  [name |-> Chars("SimplePolygon"),
   typeNode |-> [text |-> <<"Vec2", "[]">>, isUnion |-> FALSE, members |-> <<>>],
   type |-> tSimplePolygon]
\* type Polygons = SimplePolygon|SimplePolygon[];
dPolygons ==
  [name |-> Chars("Polygons"),
   typeNode |-> [text |-> <<"SimplePolygon", "|", "SimplePolygon", "[]">>, isUnion |-> TRUE,
                 members |-> <<[isStringLiteral |-> FALSE], [isStringLiteral |-> FALSE]>>],
   type |-> tPolygons]
\* type Handle = { id: number };
dHandle ==
  [name |-> Chars("Handle"),
   typeNode |-> [text |-> <<"{", "id", ":", "number", "}">>, isUnion |-> FALSE,
                 members |-> <<>>],
   type |-> Plain(<<"Handle">>)]
\* interface Foo { bar?: number }
dFoo == [name |-> Chars("Foo"), properties |-> <<Node(Chars("bar"), tNumber, TRUE)>>]
\* a second declaration of the interface, merged by TypeScript:
\* interface Foo { size: number }
dFooMerged == [name |-> Chars("Foo"), properties |-> <<Node(Chars("size"), tNumber, FALSE)>>]
\* interface Opts { at: Vec2 | number; altAt: number | Vec2 }
dOpts ==
  [name |-> Chars("Opts"),
   properties |-> <<Node(Chars("at"), UnionOf(<<tVec2, tNumber>>), FALSE),
                    Node(Chars("altAt"), UnionOf(<<tNumber, tVec2>>), FALSE)>>]
\* interface Nest { items: string | (number | CrossSection)[] }
dNest ==
  [name |-> Chars("Nest"),
   properties |-> <<Node(Chars("items"),
                         UnionOf(<<tString, ArrayOf(UnionOf(<<tNumber, tCrossSection>>))>>),
                         FALSE)>>]
\* class Box { constructor(width: number, height: number); volume(): number }
dBox ==
  [name |-> Chars("Box"),
   constructors |-> << <<Node(Chars("width"), tNumber, FALSE), Node(Chars("height"), tNumber, FALSE)>> >>,
   staticMethods |-> <<>>,
   methods |-> <<[name |-> Chars("volume"), params |-> <<>>, returnType |-> tNumber]>>,
   properties |-> <<>>]
\* the same class with a property: depth: number
dBoxProps == [dBox EXCEPT !.properties = <<Node(Chars("depth"), tNumber, FALSE)>>]
\* class Shape { constructor(size: Vec2 | number); scale(size: number | Vec2): Shape }
dShape ==
  [name |-> Chars("Shape"),
   constructors |-> << <<Node(Chars("size"), UnionOf(<<tVec2, tNumber>>), FALSE)>> >>,
   staticMethods |-> <<>>,
   methods |-> <<[name |-> Chars("scale"),
                  params |-> <<Node(Chars("size"), UnionOf(<<tNumber, tVec2>>), FALSE)>>,
                  returnType |-> Plain(<<"Shape">>)]>>,
   properties |-> <<>>]
\* class Grid { constructor(size: number); constructor(width: number, height: number);
\*              static unit(): number; area(): number }
\* In a declaration file every constructor signature is a constructor
\* declaration of its own, and getMethods() (line 267) returns the static
\* methods along with the instance methods, in declaration order.
dGrid ==
  [name |-> Chars("Grid"),
   constructors |-> << <<Node(Chars("size"), tNumber, FALSE)>>,
                       <<Node(Chars("width"), tNumber, FALSE), Node(Chars("height"), tNumber, FALSE)>> >>,
   staticMethods |-> <<[name |-> Chars("unit"), params |-> <<>>, returnType |-> tNumber]>>,
   methods |-> <<[name |-> Chars("unit"), params |-> <<>>, returnType |-> tNumber],
                 [name |-> Chars("area"), params |-> <<>>, returnType |-> tNumber]>>,
   properties |-> <<>>]
\* class Mesh { numProp: number }
dMesh ==
  [name |-> Chars("Mesh"), constructors |-> <<>>, staticMethods |-> <<>>, methods |-> <<>>,
   properties |-> <<Node(Chars("numProp"), tNumber, FALSE)>>]
\* a class without a name: export default class { numProp: number }
dAnon == [dMesh EXCEPT !.name = <<>>]
\* enum ErrorStatus { NoError, notManifold }
dErrorStatus == [name |-> Chars("ErrorStatus"), members |-> <<Chars("NoError"), Chars("notManifold")>>]

\* lines 65-69: dtsFiles, in the order they are added to the project
dtsFiles ==
  << <<"manifold-global-types", ".d.ts">>,
     <<"manifold-encapsulated-types", ".d.ts">>,
     <<"manifold", ".d.ts">> >>

Slots ==
  {"FillRule", "Vec2G", "HandleG", "Polygons", "Foo", "FooMerged", "Opts", "Nest", "Box", "BoxProps", "Shape", "Grid", "Vec2M", "Handle",
   "Anon", "Mesh", "BoxM", "ErrorStatus"}

\* The declarations compile: a class is declared once in a module, a merged declaration
\* follows the declaration it is merged with, Polygons is declared together with
\* SimplePolygon, and Vec2 is declared (in either
\* module, or in both) where it is referenced.
ResolvedSlots(S) ==
  /\ ~({"Box", "BoxProps"} \subseteq S)
  /\ ("FooMerged" \in S) => ("Foo" \in S)
  /\ (S \cap {"Opts", "Shape", "Polygons"} # {}) => (S \cap {"Vec2G", "Vec2M"} # {})

Pick(S, slots, decls) ==
  Flatten([i \in 1..Len(slots) |-> IF slots[i] \in S THEN <<decls[i]>> ELSE <<>>])

\* fs.existsSync(filePath) (line 76) is `present`.
FilesOf(S, absent) ==
  << [path |-> dtsFiles[1], present |-> 1 \notin absent,
      interfaces |-> Pick(S, <<"Foo", "FooMerged", "Opts", "Nest">>,
                        <<dFoo, dFooMerged, dOpts, dNest>>),
      typeAliases |-> Pick(S, <<"FillRule", "Vec2G", "HandleG", "Polygons", "Polygons">>,
                         <<dFillRule, dVec2, dHandle, dSimplePolygon, dPolygons>>),
      classes |-> <<>>, enums |-> <<>>],
     [path |-> dtsFiles[2], present |-> 2 \notin absent,
      interfaces |-> <<>>, typeAliases |-> <<>>,
      classes |-> Pick(S, <<"Box", "BoxProps", "Shape", "Grid">>, <<dBox, dBoxProps, dShape, dGrid>>),
      enums |-> <<>>],
     [path |-> dtsFiles[3], present |-> 3 \notin absent,
      interfaces |-> <<>>,
      typeAliases |-> Pick(S, <<"Vec2M", "Handle">>, <<dVec2, dHandle>>),
      classes |-> Pick(S, <<"Anon", "Mesh", "BoxM">>, <<dAnon, dMesh, dBox>>),
      enums |-> Pick(S, <<"ErrorStatus">>, <<dErrorStatus>>)] >>

IsEmptyFile(f) ==
  f.interfaces = <<>> /\ f.typeAliases = <<>> /\ f.classes = <<>> /\ f.enums = <<>>

\* A file that does not exist has no declarations.
InputCorpora ==
  {files \in {FilesOf(S, absent) :
                S \in {T \in SUBSET Slots : Cardinality(T) <= MaxDecls /\ ResolvedSlots(T)},
                absent \in SUBSET (1..3)} :
     \A i \in 1..3 : ~files[i].present => IsEmptyFile(files[i])}

(***************************************************************************)
(* Spec: the generator run as a process (lines 1077-1090), up to MaxRuns   *)
(* times over the same declaration files and the same output directory.    *)
(***************************************************************************)
\* The module-level state when the module has been evaluated (lines 533,
\* 536, 539, 613, 616).
CounterSurvivesReload ==
  [registry |-> EmptyMap, items |-> <<>>, types |-> <<>>,
   counter |-> todoUnionCounter, cache |-> EmptyMap]
RegistriesSurviveReload ==
  [registry |-> typeAliasRegistry, items |-> <<>>, types |-> todoTypes,
   counter |-> todoUnionCounter, cache |-> todoUnionCache]
LoadedModuleState ==
  [registry |-> EmptyMap, items |-> <<>>, types |-> <<>>, counter |-> 1, cache |-> EmptyMap]

\* The registries as generateRustTypes finds them.
RegistrySnapshot ==
  [registry |-> typeAliasRegistry, types |-> todoTypes,
   counter |-> todoUnionCounter, cache |-> todoUnionCache]

Init ==
  /\ ModuleLoaded
  /\ PipelineIdle
  /\ pc = "idle"
  /\ input \in InputCorpora
  /\ result = NotStarted
  /\ rendered = <<>>
  /\ calls = <<>>
  /\ BridgeIdle

callVars == <<input, result, rendered, calls>>

\* lines 1088-1090: the entry point is run in a new process; the module is
\* evaluated, then main is called.
StartProcess ==
  /\ pc \in {"idle", "exited"}
  /\ run < MaxRuns
  /\ run' = run + 1
  /\ prevOutput' = outputDir
  /\ typeAliasRegistry' = LoadedModuleState.registry
  /\ generatedItems' = LoadedModuleState.items
  /\ todoTypes' = LoadedModuleState.types
  /\ todoUnionCounter' = LoadedModuleState.counter
  /\ todoUnionCache' = LoadedModuleState.cache
  /\ sourceFiles' = <<>>
  /\ fileIdx' = 0
  /\ pc' = "main"
  /\ exitCode' = <<>>
  /\ UNCHANGED <<outputDir, startSnapshot, callVars>>
  /\ UNCHANGED bridgeVars

\* lines 60-82: a new item map, and the files that exist, in dtsFiles order
EnterGenerateRustTypes ==
  /\ pc = "main"
  /\ startSnapshot' = RegistrySnapshot
  /\ generatedItems' = <<>>
  /\ sourceFiles' = SelectSeq(input, LAMBDA f : f.present)
  /\ fileIdx' = 1
  /\ pc' = "register"
  /\ UNCHANGED <<typeAliasRegistry, dedupVars, outputDir, run, prevOutput, callVars, exitCode>>
  /\ UNCHANGED bridgeVars

\* lines 85-87, one iteration
RegisterFile ==
  /\ pc = "register"
  /\ fileIdx <= Len(sourceFiles)
  /\ With(registerTypeAliases(sourceFiles[fileIdx], 1, typeAliasRegistry, generatedItems),
          LAMBDA r : /\ r.items # Aborted
                     /\ typeAliasRegistry' = r.registry
                     /\ generatedItems' = r.items)
  /\ fileIdx' = fileIdx + 1
  /\ UNCHANGED <<dedupVars, pc, sourceFiles, outputDir, run, prevOutput, startSnapshot,
                 callVars, exitCode>>
  /\ UNCHANGED bridgeVars

\* lines 85-87: the first loop has run over every source file
FirstPassStopsAfterOneFile == fileIdx > 1
FirstPassDone == fileIdx > Len(sourceFiles)

\* line 90: the second loop starts
BeginSecondPass ==
  /\ pc = "register"
  /\ FirstPassDone
  /\ fileIdx' = 1
  /\ pc' = "interfaces"
  /\ UNCHANGED <<typeAliasRegistry, generatedItems, dedupVars, sourceFiles, outputDir, run,
                 prevOutput, startSnapshot, callVars, exitCode>>
  /\ UNCHANGED bridgeVars

\* lines 97-101 (and 111-116, 125-130, 139-144): a non-null item is stored
StoreNullAborts(items, sourceFile, rustItem) ==
  IF items = Aborted \/ rustItem = Thrown \/ rustItem = NoItem THEN Aborted
  ELSE OMapSet(items, ItemKey(sourceFile, rustItem.name), rustItem)
StoreItem(items, sourceFile, rustItem) ==
  IF items = Aborted \/ rustItem = Thrown THEN Aborted
  ELSE IF rustItem = NoItem THEN items
  ELSE OMapSet(items, ItemKey(sourceFile, rustItem.name), rustItem)

RECURSIVE StoreItems(_, _, _)
StoreItems(items, sourceFile, rustItems) ==
  IF rustItems = <<>> THEN items
  ELSE StoreItems(StoreItem(items, sourceFile, rustItems[1]), sourceFile, Tail(rustItems))

\* lines 93-105
LowerInterfaces ==
  /\ pc = "interfaces"
  /\ fileIdx <= Len(sourceFiles)
  /\ With(StoreItems(generatedItems, sourceFiles[fileIdx],
                     [i \in 1..Len(sourceFiles[fileIdx].interfaces) |->
                        processInterface(sourceFiles[fileIdx].interfaces[i],
                                         sourceFiles[fileIdx])]),
          LAMBDA items : items # Aborted /\ generatedItems' = items)
  /\ pc' = "typeAliases"
  /\ UNCHANGED <<typeAliasRegistry, dedupVars, fileIdx, sourceFiles, outputDir, run,
                 prevOutput, startSnapshot, callVars, exitCode>>
  /\ UNCHANGED bridgeVars

\* lines 107-119
LowerTypeAliases ==
  /\ pc = "typeAliases"
  /\ With(StoreItems(generatedItems, sourceFiles[fileIdx],
                     [i \in 1..Len(sourceFiles[fileIdx].typeAliases) |->
                        processTypeAlias(sourceFiles[fileIdx].typeAliases[i],
                                         sourceFiles[fileIdx])]),
          LAMBDA items : items # Aborted /\ generatedItems' = items)
  /\ pc' = "classes"
  /\ UNCHANGED <<typeAliasRegistry, dedupVars, fileIdx, sourceFiles, outputDir, run,
                 prevOutput, startSnapshot, callVars, exitCode>>
  /\ UNCHANGED bridgeVars

\* lines 121-133, from the k-th class on: processClass renders constructor
\* parameter types, so the module state is carried from class to class
RECURSIVE LowerClassesFrom(_, _, _, _)
LowerClassesFrom(sourceFile, k, items, st) ==
  IF items = Aborted \/ k > Len(sourceFile.classes) THEN [items |-> items, st |-> st]
  ELSE With(processClass(sourceFile.classes[k], sourceFile, st), LAMBDA r :
         LowerClassesFrom(sourceFile, k + 1, StoreItem(items, sourceFile, r.item), r.st))

LowerClasses ==
  /\ pc = "classes"
  /\ With(LowerClassesFrom(sourceFiles[fileIdx], 1, generatedItems, DedupState),
          LAMBDA r : /\ r.items # Aborted
                     /\ generatedItems' = r.items
                     /\ SetDedupState(r.st))
  /\ pc' = "enums"
  /\ UNCHANGED <<typeAliasRegistry, fileIdx, sourceFiles, outputDir, run, prevOutput,
                 startSnapshot, callVars, exitCode>>
  /\ UNCHANGED bridgeVars

\* The enums of a file are lowered and the file's artifact is written at once.
LowerEnumsAndWrite ==
  /\ pc = "enums"
  /\ With(StoreItems(generatedItems, sourceFiles[fileIdx],
                     [i \in 1..Len(sourceFiles[fileIdx].enums) |->
                        processEnum(sourceFiles[fileIdx].enums[i], sourceFiles[fileIdx])]),
          LAMBDA items : items # Aborted /\ generatedItems' = items)
  /\ outputDir' = MapSet(outputDir, getOutputFileName(ConcatStrings(sourceFiles[fileIdx].path)),
                         <<"// Auto-generated Rust types from ">> \o sourceFiles[fileIdx].path)
  /\ fileIdx' = fileIdx + 1
  /\ pc' = "interfaces"
  /\ UNCHANGED <<typeAliasRegistry, dedupVars, sourceFiles, run, prevOutput,
                 startSnapshot, callVars, exitCode>>
  /\ UNCHANGED bridgeVars

\* lines 135-147
LowerEnums ==
  /\ pc = "enums"
  /\ With(StoreItems(generatedItems, sourceFiles[fileIdx],
                     [i \in 1..Len(sourceFiles[fileIdx].enums) |->
                        processEnum(sourceFiles[fileIdx].enums[i], sourceFiles[fileIdx])]),
          LAMBDA items : items # Aborted /\ generatedItems' = items)
  /\ fileIdx' = fileIdx + 1
  /\ pc' = "interfaces"
  /\ UNCHANGED <<typeAliasRegistry, dedupVars, sourceFiles, outputDir, run, prevOutput,
                 startSnapshot, callVars, exitCode>>
  /\ UNCHANGED bridgeVars

\* lines 151 and 960-985: generateRustOutputFiles is entered
BeginEmit ==
  /\ pc = "interfaces"
  /\ fileIdx > Len(sourceFiles)
  /\ fileIdx' = 1
  /\ pc' = "emit"
  /\ UNCHANGED <<typeAliasRegistry, generatedItems, dedupVars, sourceFiles, outputDir, run,
                 prevOutput, startSnapshot, callVars, exitCode>>
  /\ UNCHANGED bridgeVars

\* lines 987-990, one iteration: fs.writeFileSync replaces the file
EmitFile ==
  /\ pc = "emit"
  /\ fileIdx <= Len(fileGroups(generatedItems))
  /\ With(fileGroups(generatedItems)[fileIdx], LAMBDA group :
       With(generateSingleRustFile(group.key, group.value, KnownNames, DedupState),
            LAMBDA f : /\ outputDir' = MapSet(outputDir, f.name, f.text)
                       /\ SetDedupState(f.st)))
  /\ fileIdx' = fileIdx + 1
  /\ UNCHANGED <<typeAliasRegistry, generatedItems, pc, sourceFiles, run, prevOutput,
                 startSnapshot, callVars, exitCode>>
  /\ UNCHANGED bridgeVars

\* lines 992-993 and 1046-1061
EmitTodoUnions ==
  /\ pc = "emit"
  /\ fileIdx > Len(fileGroups(generatedItems))
  /\ With(generateTodoUnionsFile(DedupState), LAMBDA f :
       IF f.written
       THEN /\ outputDir' = MapSet(outputDir, "todo_unions.rs", f.text)
            /\ SetDedupState(f.st)
       ELSE UNCHANGED <<outputDir, dedupVars>>)
  /\ pc' = "done"
  /\ UNCHANGED <<typeAliasRegistry, generatedItems, fileIdx, sourceFiles, run, prevOutput,
                 startSnapshot, callVars, exitCode>>
  /\ UNCHANGED bridgeVars

\* lines 1079-1081: main returns and the process ends
Exit ==
  /\ pc = "done"
  /\ pc' = "exited"
  /\ exitCode' = <<0>>
  /\ UNCHANGED <<typeAliasRegistry, generatedItems, dedupVars, fileIdx, sourceFiles,
                 outputDir, run, prevOutput, startSnapshot, callVars>>
  /\ UNCHANGED bridgeVars

\* lines 1081-1084: an exception thrown in either pass reaches the catch of
\* main, and the process exits with code 1
Abort ==
  /\ pc \in {"register", "interfaces", "typeAliases", "classes", "enums"}
  /\ fileIdx <= Len(sourceFiles)
  /\ Aborted =
       (CASE pc = "register" ->
               registerTypeAliases(sourceFiles[fileIdx], 1, typeAliasRegistry,
                                   generatedItems).items
          [] pc = "interfaces" ->
               StoreItems(generatedItems, sourceFiles[fileIdx],
                          [i \in 1..Len(sourceFiles[fileIdx].interfaces) |->
                             processInterface(sourceFiles[fileIdx].interfaces[i],
                                              sourceFiles[fileIdx])])
          [] pc = "typeAliases" ->
               StoreItems(generatedItems, sourceFiles[fileIdx],
                          [i \in 1..Len(sourceFiles[fileIdx].typeAliases) |->
                             processTypeAlias(sourceFiles[fileIdx].typeAliases[i],
                                              sourceFiles[fileIdx])])
          [] pc = "classes" ->
               LowerClassesFrom(sourceFiles[fileIdx], 1, generatedItems, DedupState).items
          [] pc = "enums" ->
               StoreItems(generatedItems, sourceFiles[fileIdx],
                          [i \in 1..Len(sourceFiles[fileIdx].enums) |->
                             processEnum(sourceFiles[fileIdx].enums[i],
                                         sourceFiles[fileIdx])]))
  /\ pc' = "exited"
  /\ exitCode' = <<1>>
  /\ UNCHANGED <<typeAliasRegistry, generatedItems, dedupVars, fileIdx, sourceFiles,
                 outputDir, run, prevOutput, startSnapshot, callVars>>
  /\ UNCHANGED bridgeVars

Next ==
  \/ StartProcess
  \/ EnterGenerateRustTypes
  \/ RegisterFile
  \/ BeginSecondPass
  \/ LowerInterfaces
  \/ LowerTypeAliases
  \/ LowerClasses
  \/ LowerEnums
  \/ BeginEmit
  \/ EmitFile
  \/ EmitTodoUnions
  \/ Exit

Spec == Init /\ [][Next]_vars

(***************************************************************************)
(* SpecAnyFiles: the same process when, from some run on, the base name of *)
(* one declaration file is not one of the three of lines 67-69, which is   *)
(* the only way for getFilePrefix to be called with a name it does not     *)
(* know (line 57).  The output directory is the one the earlier runs left. *)
(***************************************************************************)
OtherFileNames == {"types"}

Renamed(files, i, fileName) == [files EXCEPT ![i].path = <<fileName, ".d.ts">>]

\* Between two runs, one of the files of dtsFiles gets another name.
RenameFile ==
  /\ pc \in {"idle", "exited"}
  /\ run < MaxRuns
  /\ \A f \in 1..Len(input) : input[f].path = dtsFiles[f]
  /\ \E i \in 1..Len(input), fileName \in OtherFileNames :
       input' = Renamed(input, i, fileName)
  /\ UNCHANGED <<typeAliasRegistry, generatedItems, dedupVars, pc, fileIdx, sourceFiles,
                 outputDir, run, prevOutput, startSnapshot, exitCode, result, rendered, calls>>
  /\ UNCHANGED bridgeVars

NextAnyFiles == Next \/ Abort \/ RenameFile
SpecAnyFiles == Init /\ [][NextAnyFiles]_vars


(***************************************************************************)
(* SpecRerun: the same process when the declaration files of the           *)
(* manifold-3d package (lines 65-70) are replaced between two runs, the    *)
(* output directory being kept.                                            *)
(***************************************************************************)
\* What the package is replaced with: three files without declarations, or
\* with interface Foo alone.
LaterPackages == {FilesOf({}, {}), FilesOf({"Foo"}, {})}

ReplaceDeclarations ==
  /\ pc = "exited"
  /\ run < MaxRuns
  /\ input \notin LaterPackages
  /\ input' \in LaterPackages
  /\ UNCHANGED <<typeAliasRegistry, generatedItems, dedupVars, pc, fileIdx, sourceFiles,
                 outputDir, run, prevOutput, startSnapshot, exitCode, result, rendered, calls>>
  /\ UNCHANGED bridgeVars

NextRerun == Next \/ ReplaceDeclarations
SpecRerun == Init /\ [][NextRerun]_vars

(***************************************************************************)
(*                              PROPERTIES                                 *)
(***************************************************************************)
Reverse(s) == [i \in 1..Len(s) |-> s[Len(s) + 1 - i]]
Count(s, x) == Cardinality({i \in 1..Len(s) : s[i] = x})
IsPermutation(s, t) ==
  /\ Len(s) = Len(t)
  /\ \A x \in Range(s) \cup Range(t) : Count(s, x) = Count(t, x)

\* C1 as stated: two calls of getOrCreateTodoUnionName return the same
\* placeholder name whenever their variant lists are equal as sets, and
\* different names otherwise.
C1_SetEqualSameName ==
  \A i, j \in 1..Len(calls) :
    (Range(calls[i].variants) = Range(calls[j].variants)) <=> (calls[i].name = calls[j].name)

\* C1 amended: two calls of getOrCreateTodoUnionName, at any distance in the
\* run, return the same placeholder name exactly when their variant lists are
\* permutations of each other (the same variants, each as many times).
C1_PermutationSameName ==
  \A i, j \in 1..Len(calls) :
    IsPermutation(calls[i].variants, calls[j].variants) <=> (calls[i].name = calls[j].name)

C1_Witness ==
  /\ Len(calls) = 3
  /\ calls[1].variants = <<Named("Polygons"), Named("CrossSection")>>
  /\ calls[3].variants = <<Named("CrossSection"), Named("Polygons")>>
  /\ calls[1].name = calls[3].name
  /\ calls[2].name # calls[1].name

\* The variant list the union branch of convertTypeToRustIR builds for a type.
ReachesUnionBranch(type) ==
  /\ type.defined
  /\ convertPrimitiveToIR(type.text) = NoIR
  /\ ~(type.isArray /\ type.elementType.defined)
  /\ ~type.isTuple
  /\ type.isUnion
BranchVariants(type) ==
  IF HasKnownAliases(UnionParts(type.text))
  THEN [i \in 1..Len(UnionParts(type.text)) |-> AliasPathVariant(UnionParts(type.text)[i])]
  ELSE [i \in 1..Len(type.unionTypes) |-> convertTypeToRustIR(type.unionTypes[i])]
\* The same union written in the opposite order.
ReverseUnion(type) ==
  [type EXCEPT !.text = JoinTokens(Reverse(SplitOn(type.text, "|")), "|"),
               !.unionTypes = Reverse(type.unionTypes)]

ReachesTupleBranch(type) ==
  /\ type.defined
  /\ convertPrimitiveToIR(type.text) = NoIR
  /\ ~(type.isArray /\ type.elementType.defined)
  /\ type.isTuple
C9_HomogeneousTupleIsFixedArray ==
  (pc \in {"returned", "rendered"} /\ ReachesTupleBranch(input)) =>
    LET els == [i \in 1..Len(input.tupleElements) |->
                  convertTypeToRustIR(input.tupleElements[i])]
        n == Len(els)
    IN /\ (n > 0 /\ \A i \in 1..n : els[i].kind = "primitive" /\ els[i] = els[1]) =>
            /\ result = SizedArrayIR(els[1], n)
            /\ pc = "rendered" => rendered = <<"[", els[1].name, "; ", ToString(n), "]">>
       /\ (\E i, j \in 1..n : els[i].kind # "primitive" \/ els[i] # els[j]) =>
            result = TupleIR(els)

C9_Witness ==
  /\ pc = "rendered"
  /\ input = TupleOf(<<tNumber, tNumber>>)
  /\ result = SizedArrayIR(Primitive("f64"), 2)
  /\ rendered = <<"[", "f64", "; ", "2", "]">>

(***************************************************************************)
(* Properties of the pipeline.                                             *)
(***************************************************************************)
HasItem(sourceFile, name) == ItemKey(sourceFile, name) \in Keys(generatedItems)
ItemAt(sourceFile, name) == OMapGet(generatedItems, ItemKey(sourceFile, name))

\* The second pass is over, and the items are those of this run.
LoweringOver == pc \in {"emit", "done", "exited"}
InSecondPass == pc \in {"interfaces", "typeAliases", "classes", "enums"}
\* The classes of the i-th source file have been lowered in this run.
ClassesLowered(i) ==
  \/ LoweringOver
  \/ InSecondPass /\ (fileIdx > i \/ (fileIdx = i /\ pc = "enums"))

IsStringLiteralUnion(alias) ==
  /\ alias.typeNode.isUnion
  /\ Len(alias.typeNode.members) > 1
  /\ \A i \in 1..Len(alias.typeNode.members) : alias.typeNode.members[i].isStringLiteral

\* C2: when the second pass is over, every type alias whose definition is a
\* union of string literals only has, as its item, an Enum with one
\* PascalCase variant per literal (not what the lowering pass produces).
C2_StringLiteralAliasStaysEnum ==
  LoweringOver =>
    \A f \in 1..Len(sourceFiles) : \A a \in 1..Len(sourceFiles[f].typeAliases) :
      LET alias == sourceFiles[f].typeAliases[a]
          name == ConcatStrings(alias.name)
      IN IsStringLiteralUnion(alias) =>
           /\ HasItem(sourceFiles[f], name)
           /\ ItemAt(sourceFiles[f], name).kind = "enum"
           /\ ItemAt(sourceFiles[f], name).variants =
                [i \in 1..Len(alias.typeNode.members) |->
                   toPascalCase(alias.typeNode.members[i].value)]

\* C4: a run over the declaration files of the run before it leaves the
\* output directory exactly as that run left it: the same files with the
\* same text.
C4_SecondRunSameOutput ==
  (run >= 2 /\ pc \in {"done", "exited"}) => outputDir = prevOutput

C4_Witness ==
  /\ run = 2 /\ pc = "done"
  /\ "todo_unions.rs" \in DOMAIN outputDir
  /\ "global_types.rs" \in DOMAIN outputDir
  /\ outputDir = prevOutput

\* C5: whenever generateRustTypes has been entered, it found the alias
\* registry, the union cache and the placeholder registry empty and the
\* counter at its start value.
C5_RegistriesEmptyAtEntry ==
  startSnapshot # NotStarted =>
    startSnapshot = [registry |-> EmptyMap, types |-> <<>>, counter |-> 1, cache |-> EmptyMap]

C5_Witness ==
  /\ run = 2 /\ pc = "register"
  /\ "todo_unions.rs" \in DOMAIN outputDir
  /\ startSnapshot = [registry |-> EmptyMap, types |-> <<>>, counter |-> 1,
                      cache |-> EmptyMap]

\* C6: while any declaration is being lowered, the registry holds every
\* type alias of every source file.
C6_RegistryCompleteBeforeLowering ==
  InSecondPass =>
    \A f \in 1..Len(sourceFiles) : \A a \in 1..Len(sourceFiles[f].typeAliases) :
      sourceFiles[f].typeAliases[a].typeNode.text # <<>> =>
        ConcatStrings(sourceFiles[f].typeAliases[a].name) \in DOMAIN typeAliasRegistry

\* An interface of the first file has been lowered with the name of an alias
\* that a later file declares.
C6_Witness ==
  /\ pc = "typeAliases" /\ fileIdx = 1
  /\ Len(sourceFiles) = 3
  /\ dOpts \in Range(sourceFiles[1].interfaces)
  /\ dVec2 \in Range(sourceFiles[3].typeAliases)
  /\ HasItem(sourceFiles[1], "Opts")
  /\ ItemAt(sourceFiles[1], "Opts").fields[1].type = UnionIR(<<Named("Vec2"), Primitive("f64")>>)

\* C8: when the run is done, the struct emitted for interface Foo { bar?: number }
\* has the field line `pub bar: Option<f64>,`.
C8_OptionalFieldIsOptionF64 ==
  (pc = "done" /\ dFoo \in Range(input[1].interfaces)) =>
    /\ "global_types.rs" \in DOMAIN outputDir
    /\ IncludesTokens(outputDir["global_types.rs"],
                      <<"    pub ", "bar", ": ", "Option<", "f64", ">", ",\n">>)

\* C10: every named class of the encapsulated-category file is lowered to an
\* ExternBlock, whatever its properties; for class Box with
\* constructor(width: number, height: number) and volume(): number the block
\* has the constructor `new` with two f64 arguments returning Named Box, then
\* the instance method `volume` without arguments returning f64.
BoxMethods ==
  <<[name |-> "new",
     args |-> <<[name |-> "width", type |-> Primitive("f64")],
                [name |-> "height", type |-> Primitive("f64")]>>,
     returnType |-> Named("Box"), methodType |-> "constructor"],
    [name |-> "volume", args |-> <<>>, returnType |-> Primitive("f64"),
     methodType |-> "instance"]>>

C10_EncapsulatedClassIsExternBlock ==
  \A f \in 1..Len(sourceFiles) :
    (ClassesLowered(f) /\ getFilePrefix(sourceFiles[f].path) = "Encapsulated") =>
      \A c \in 1..Len(sourceFiles[f].classes) :
        LET classDecl == sourceFiles[f].classes[c]
            name == ConcatStrings(classDecl.name)
        IN classDecl.name # <<>> =>
             /\ HasItem(sourceFiles[f], name)
             /\ ItemAt(sourceFiles[f], name).kind = "extern_block"
             /\ classDecl \in {dBox, dBoxProps} =>
                  ItemAt(sourceFiles[f], name).methods = BoxMethods

C10_Witness ==
  /\ pc = "enums"
  /\ dBoxProps \in Range(sourceFiles[fileIdx].classes)
  /\ ItemAt(sourceFiles[fileIdx], "Box").kind = "extern_block"
  /\ ItemAt(sourceFiles[fileIdx], "Box").methods = BoxMethods

\* The items the second pass produces for a source file, in the order it
\* produces them (interfaces, type aliases, classes, enums), skipped
\* declarations left out.
Lowered(sourceFile) ==
  SelectSeq([i \in 1..Len(sourceFile.interfaces) |->
               processInterface(sourceFile.interfaces[i], sourceFile)]
            \o [i \in 1..Len(sourceFile.typeAliases) |->
               processTypeAlias(sourceFile.typeAliases[i], sourceFile)]
            \o [i \in 1..Len(sourceFile.classes) |->
               processClass(sourceFile.classes[i], sourceFile, DedupState).item]
            \o [i \in 1..Len(sourceFile.enums) |->
               processEnum(sourceFile.enums[i], sourceFile)],
            LAMBDA item : item # NoItem)
\* The last of the items with a name.
LastNamed(items, name) ==
  items[CHOOSE i \in 1..Len(items) :
          /\ items[i].name = name
          /\ \A j \in (i + 1)..Len(items) : items[j].name # name]
\* The output file the items of a source file are written to.
OutputOf(sourceFile) == getOutputFileName(GroupFileName(ItemKey(sourceFile, "")))
\* How many declarations of a name a file's text has.
DeclCount(text, name) ==
  Cardinality({i \in 1..(Len(text) - 1) :
                 /\ text[i] \in {"pub struct ", "pub enum ", "pub type ", "    type "}
                 /\ text[i + 1] = name})

\* C11: generatedItems holds at most one item for a source file and a name;
\* when lowering is over it is the item of the last declaration of that name
\* in the file (an item of the registry pass is replaced by the item of the
\* lowering pass), a name declared in two source files has an item for each,
\* and when the run is done each file's text declares each name once, with
\* the text of the item that was kept.
C11_LastDeclarationWins ==
  /\ \A i, j \in 1..Len(generatedItems) :
        generatedItems[i].key = generatedItems[j].key => i = j
  /\ LoweringOver =>
        /\ \A f \in 1..Len(sourceFiles) :
             \A i \in 1..Len(Lowered(sourceFiles[f])) :
               LET name == Lowered(sourceFiles[f])[i].name
               IN /\ HasItem(sourceFiles[f], name)
                  /\ ItemAt(sourceFiles[f], name) = LastNamed(Lowered(sourceFiles[f]), name)
        /\ \A i \in 1..Len(generatedItems) :
             \E f \in 1..Len(sourceFiles) :
               \E j \in 1..Len(Lowered(sourceFiles[f])) :
                 generatedItems[i].key =
                   ItemKey(sourceFiles[f], Lowered(sourceFiles[f])[j].name)
  /\ pc = "done" =>
        \A f \in 1..Len(sourceFiles) :
          \A i \in 1..Len(Lowered(sourceFiles[f])) :
            LET name == Lowered(sourceFiles[f])[i].name
                text == outputDir[OutputOf(sourceFiles[f])]
            IN /\ DeclCount(text, name) = 1
               /\ IncludesTokens(text,
                     rustItemToString(ItemAt(sourceFiles[f], name), KnownNames,
                                      DedupState).text)

\* The registry pass stored an Enum for FillRule, the lowering pass replaced
\* it, and the file has the replacement only.
C11_Witness ==
  /\ pc = "done"
  /\ Len(sourceFiles) > 0 /\ sourceFiles[1].path = dtsFiles[1]
  /\ dFillRule \in Range(sourceFiles[1].typeAliases)
  /\ ItemAt(sourceFiles[1], "FillRule").kind = "type_alias"
  /\ ~IncludesTokens(outputDir["global_types.rs"], <<"pub enum ", "FillRule">>)
  /\ IncludesTokens(outputDir["global_types.rs"], <<"pub type ", "FillRule">>)

\* The base name has one of the three substrings of getFilePrefix.
Recognised(fileName) ==
  \E part \in {"manifold-global-types", "manifold-encapsulated-types", "manifold"} :
    NameIncludes(fileName, part)
\* The file has a declaration whose lowering asks for the file's category:
\* a named interface or class, a type alias or an enum.
ConsultsPrefix(sourceFile) ==
  \/ \E i \in 1..Len(sourceFile.interfaces) : sourceFile.interfaces[i].name # <<>>
  \/ \E i \in 1..Len(sourceFile.classes) : sourceFile.classes[i].name # <<>>
  \/ sourceFile.typeAliases # <<>>
  \/ sourceFile.enums # <<>>

ItemsFrom(sourceFile) ==
  SelectSeq(generatedItems,
            LAMBDA e : SubSeq(e.key, 1, Len(sourceFile.path)) = sourceFile.path)
HasUnnamedClass(sourceFile) ==
  \E c \in 1..Len(sourceFile.classes) : sourceFile.classes[c].name = <<>>
\* The run has not been ended by an exception.
NotAborted == exitCode # <<1>>

\* C13: processClass returns no item for a class without a name and changes
\* nothing; in a run over recognised files the step that lowers the classes
\* of a file with such a class does not raise, the file's items are those of
\* its other declarations, all of them are in the emitted text when the run
\* is done, and the process exits with code 0.
C13_UnnamedClassSkipped ==
  \A f \in 1..Len(sourceFiles) :
    (HasUnnamedClass(sourceFiles[f]) /\ \A g \in 1..Len(sourceFiles) :
                                          Recognised(Basename(sourceFiles[g].path))) =>
      /\ \A c \in 1..Len(sourceFiles[f].classes) :
           sourceFiles[f].classes[c].name = <<>> =>
             processClass(sourceFiles[f].classes[c], sourceFiles[f], DedupState)
               = [item |-> NoItem, st |-> DedupState]
      /\ (pc = "classes" /\ fileIdx = f) =>
           LowerClassesFrom(sourceFiles[f], 1, generatedItems, DedupState).items # Aborted
      /\ NotAborted
      /\ ClassesLowered(f) =>
           /\ \A i \in 1..Len(sourceFiles[f].classes) :
                sourceFiles[f].classes[i].name # <<>> =>
                  HasItem(sourceFiles[f], ConcatStrings(sourceFiles[f].classes[i].name))
           /\ \A i \in 1..Len(ItemsFrom(sourceFiles[f])) :
                \E j \in 1..Len(Lowered(sourceFiles[f])) :
                  ItemsFrom(sourceFiles[f])[i].value.name = Lowered(sourceFiles[f])[j].name
      /\ LoweringOver =>
           \A g \in 1..Len(sourceFiles) : \A j \in 1..Len(Lowered(sourceFiles[g])) :
             HasItem(sourceFiles[g], Lowered(sourceFiles[g])[j].name)
      /\ pc \in {"done", "exited"} =>
           \A i \in 1..Len(generatedItems) :
             \E file \in DOMAIN outputDir :
               IncludesTokens(outputDir[file],
                              rustItemToString(generatedItems[i].value, KnownNames,
                                               DedupState).text)
      /\ pc = "exited" => exitCode = <<0>>

\* manifold.d.ts has a class without a name, then class Mesh: Mesh is the
\* only item and is in the emitted text.
C13_Witness ==
  /\ pc = "exited" /\ exitCode = <<0>>
  /\ Len(sourceFiles) > 0
  /\ sourceFiles[Len(sourceFiles)].classes = <<dAnon, dMesh>>
  /\ Len(generatedItems) = 1
  /\ HasItem(sourceFiles[Len(sourceFiles)], "Mesh")
  /\ IncludesTokens(outputDir["manifold_main.rs"], <<"pub struct ", "Mesh">>)

\* How many times a text has a run of tokens.
Occurrences(text, part) ==
  Cardinality({i \in 0..(Len(text) - Len(part)) :
                 SubSeq(text, i + 1, i + Len(part)) = part})
\* The artifact of a category.
CategoryArtifact(prefix) ==
  CASE prefix = "Global" -> "global_types.rs"
    [] prefix = "Encapsulated" -> "encapsulated_types.rs"
    [] prefix = "Manifold" -> "manifold_main.rs"
\* The items of generatedItems with a name whose source file has the
\* category of an artifact.
ItemsOfArtifact(file, name) ==
  {i \in 1..Len(generatedItems) :
     /\ generatedItems[i].value.name = name
     /\ \E f \in 1..Len(sourceFiles) :
          /\ generatedItems[i].key = ItemKey(sourceFiles[f], name)
          /\ CategoryArtifact(getFilePrefix(sourceFiles[f].path)) = file}

\* C14: when the run is done, every item of generatedItems has its text in
\* the artifact of its source file's category; each of the three category
\* artifacts declares a name exactly as often as generatedItems has an item
\* of that name from a file of its category (none dropped, none twice, none
\* in another category's artifact), no other artifact is written for items,
\* and every placeholder in todoTypes has its struct, once, in todo_unions.rs.
C14_ItemsPartitionedByCategory ==
  pc = "done" =>
    /\ \A i \in 1..Len(generatedItems) :
         \E f \in 1..Len(sourceFiles) :
           /\ generatedItems[i].key = ItemKey(sourceFiles[f], generatedItems[i].value.name)
           /\ CategoryArtifact(getFilePrefix(sourceFiles[f].path)) \in DOMAIN outputDir
           /\ IncludesTokens(outputDir[CategoryArtifact(getFilePrefix(sourceFiles[f].path))],
                             rustItemToString(generatedItems[i].value, KnownNames,
                                              DedupState).text)
    /\ \A file \in {"global_types.rs", "encapsulated_types.rs", "manifold_main.rs"} :
         \A name \in {generatedItems[i].value.name : i \in 1..Len(generatedItems)} :
           IF file \in DOMAIN outputDir
           THEN DeclCount(outputDir[file], name) = Cardinality(ItemsOfArtifact(file, name))
           ELSE ItemsOfArtifact(file, name) = {}
    /\ DOMAIN outputDir \subseteq
         {"global_types.rs", "encapsulated_types.rs", "manifold_main.rs", "todo_unions.rs"}
    /\ \A t \in 1..Len(todoTypes) :
         /\ "todo_unions.rs" \in DOMAIN outputDir
         /\ Occurrences(outputDir["todo_unions.rs"],
                        <<"pub struct ">> \o todoTypes[t].key) = 1

\* Class Shape of the encapsulated file and alias Vec2 of manifold.d.ts are
\* in their own artifacts, and the placeholder of Shape's union parameter is
\* in todo_unions.rs.
C14_Witness ==
  /\ pc = "done"
  /\ Len(sourceFiles) = 3
  /\ HasItem(sourceFiles[2], "Shape")
  /\ HasItem(sourceFiles[3], "Vec2")
  /\ DeclCount(outputDir["encapsulated_types.rs"], "Shape") = 1
  /\ DeclCount(outputDir["encapsulated_types.rs"], "Vec2") = 0
  /\ DeclCount(outputDir["manifold_main.rs"], "Vec2") = 1
  /\ Len(todoTypes) > 0
  /\ IncludesTokens(outputDir["todo_unions.rs"], <<"pub struct ">> \o todoTypes[1].key)

\* The import lines, each with the marker substrings that ask for it.
Imports ==
  {[markers |-> {"wasm_bindgen"}, line |-> "use wasm_bindgen::prelude::*;\n"],
   [markers |-> {"Serialize", "Deserialize"}, line |-> "use serde::{Serialize, Deserialize};\n"],
   [markers |-> {"HashMap"}, line |-> "use std::collections::HashMap;\n"],
   [markers |-> {"Debug"}, line |-> "use std::fmt::Debug;\n"],
   [markers |-> {"Todo"}, line |-> "use super::todo_unions::*;\n"]}
CategoryArtifacts == {"global_types.rs", "encapsulated_types.rs", "manifold_main.rs"}
\* The text of an artifact without its import lines.
WithoutImports(text) ==
  SelectSeq(text, LAMBDA token : \A import \in Imports : token # import.line)
\* The distinct tokens of an artifact's text, its import lines left out.
CodeTokens(text) == Range(WithoutImports(text))
HasMarker(tokens, import) ==
  \E marker \in import.markers :
    \/ marker \in tokens
    \/ \E name \in KnownNames :
         IncludesTokens(name, MarkerChars(marker)) /\ ConcatStrings(name) \in tokens

\* C15 as stated: when the run is done, every written artifact, todo_unions.rs
\* included, has each import line exactly when the rest of its text contains
\* a marker of that line.
C15_EveryArtifactImportsByMarker ==
  pc = "done" =>
  \A file \in DOMAIN outputDir :
    With(CodeTokens(outputDir[file]), LAMBDA tokens :
      \A import \in Imports :
        (import.line \in Range(outputDir[file])) <=> HasMarker(tokens, import))

\* C15 amended: when the run is done, each of the three category artifacts
\* has each import line exactly when its items' text contains a marker of
\* that line; todo_unions.rs has the serde import as its second line (written
\* unconditionally; its structs derive Serialize) and no other import line,
\* though its text contains Debug and Todo.
C15_CategoryImportsByMarker ==
  pc = "done" =>
    /\ \A file \in DOMAIN outputDir \cap CategoryArtifacts :
         With(CodeTokens(outputDir[file]), LAMBDA tokens :
           \A import \in Imports :
             (import.line \in Range(outputDir[file])) <=> HasMarker(tokens, import))
    /\ "todo_unions.rs" \in DOMAIN outputDir =>
         /\ outputDir["todo_unions.rs"][2] = "use serde::{Serialize, Deserialize};\n"
         /\ \A import \in Imports :
              (import.line \in Range(outputDir["todo_unions.rs"]))
                <=> "Serialize" \in import.markers
         /\ \A import \in Imports :
              import.markers \cap {"Serialize", "Debug", "Todo"} # {} =>
                HasMarker(CodeTokens(outputDir["todo_unions.rs"]), import)

\* The artifact of the encapsulated classes has the wasm_bindgen and the
\* todo_unions import and no serde import; todo_unions.rs has been written.
C15_Witness ==
  /\ pc = "done"
  /\ "todo_unions.rs" \in DOMAIN outputDir
  /\ "encapsulated_types.rs" \in DOMAIN outputDir
  /\ IncludesTokens(outputDir["encapsulated_types.rs"], <<"use wasm_bindgen::prelude::*;\n">>)
  /\ IncludesTokens(outputDir["encapsulated_types.rs"], <<"use super::todo_unions::*;\n">>)
  /\ ~IncludesTokens(outputDir["encapsulated_types.rs"],
                     <<"use serde::{Serialize, Deserialize};\n">>)

\* C16: when lowering is over, the item of every enum declaration is an Enum
\* whose variants are the member names converted by toPascalCase, the rule
\* of the enums synthesised from string literals.
C16_EnumVariantsPascalCase ==
  LoweringOver =>
    \A f \in 1..Len(sourceFiles) : \A e \in 1..Len(sourceFiles[f].enums) :
      LET enumDecl == sourceFiles[f].enums[e]
          name == ConcatStrings(enumDecl.name)
      IN /\ HasItem(sourceFiles[f], name)
         /\ ItemAt(sourceFiles[f], name).kind = "enum"
         /\ ItemAt(sourceFiles[f], name).variants =
              [i \in 1..Len(enumDecl.members) |-> toPascalCase(enumDecl.members[i])]

HasUnit(variants) == \E i \in 1..Len(variants) : IsUnit(variants[i])
\* Every call of convertTypeToRustIR made for a type, the call for the type
\* itself included, returns Option only for a union whose variant list has
\* two entries, one of them '()'.
RECURSIVE OptionsJustified(_)
OptionsJustified(type) ==
  /\ convertTypeToRustIR(type).kind = "option" =>
       /\ ReachesUnionBranch(type)
       /\ Len(BranchVariants(type)) = 2
       /\ HasUnit(BranchVariants(type))
  /\ IF ~type.defined \/ convertPrimitiveToIR(type.text) # NoIR THEN TRUE
     ELSE IF type.isArray /\ type.elementType.defined THEN OptionsJustified(type.elementType)
     ELSE IF type.isTuple
       THEN \A i \in 1..Len(type.tupleElements) : OptionsJustified(type.tupleElements[i])
     ELSE IF type.isUnion /\ ~HasKnownAliases(UnionParts(type.text))
       THEN \A i \in 1..Len(type.unionTypes) : OptionsJustified(type.unionTypes[i])
     ELSE TRUE

\* C17: an Option returned by convertTypeToRustIR, for the type or for a
\* part of it, comes from a union of exactly two variants one of which is
\* '()'; a union of three or more variants one of which is '()' lowers to the
\* Union of all its variants, '()' included, and a union of two variants one
\* of which is '()' lowers to Option, not to Union.
C17_OptionOnlyFromUnitPair ==
  pc \in {"returned", "rendered"} =>
    /\ OptionsJustified(input)
    /\ ReachesUnionBranch(input) =>
         /\ (Len(BranchVariants(input)) >= 3 /\ HasUnit(BranchVariants(input))) =>
              result = UnionIR(BranchVariants(input))
         /\ (Len(BranchVariants(input)) = 2 /\ HasUnit(BranchVariants(input))) =>
              result.kind = "option"

C17_Witness ==
  /\ pc = "returned"
  /\ input = UnionOf(<<tNumber, tUndefined, tString>>)
  /\ result = UnionIR(<<Primitive("f64"), Primitive("()"), Primitive("String")>>)

\* The primitive a type text names.
PrimitiveFor(typeText) ==
  CASE typeText = <<"string">> -> Primitive("String")
    [] typeText = <<"number">> -> Primitive("f64")
    [] typeText = <<"boolean">> -> Primitive("bool")
    [] typeText \in {<<"void">>, <<"undefined">>} -> Primitive("()")

\* C18: the result of convertTypeToRustIR is that of the first rule that
\* matches, in the order primitive, array, tuple, union, typeof, function
\* type, named fallback: a primitive name lowers to its primitive (also
\* `boolean`, which is a union, and also a name that is registered as an
\* alias), an array lowers to Array and a tuple to Tuple or fixed-size Array
\* whatever their text contains, a union lowers to Union or Option also when
\* its text contains `=>` or starts with `typeof`, and only then typeof,
\* function types and names are told apart.
C18_FirstMatchingRuleWins ==
  (pc \in {"returned", "rendered"} /\ input.defined) =>
    IF input.text \in {<<"string">>, <<"number">>, <<"boolean">>, <<"void">>, <<"undefined">>}
      THEN result = PrimitiveFor(input.text)
    ELSE IF input.isArray /\ input.elementType.defined
      THEN result = ArrayIR(convertTypeToRustIR(input.elementType))
    ELSE IF input.isTuple
      THEN /\ result.kind \in {"tuple", "array"}
           /\ result.kind = "tuple" => Len(result.elements) = Len(input.tupleElements)
           /\ result.kind = "array" => result.size = Len(input.tupleElements)
    ELSE IF input.isUnion
      THEN result.kind \in {"union", "option"}
    ELSE IF input.text[1] = "typeof "
      THEN result = Named(ConcatStrings(Tail(input.text)))
    ELSE IF "=>" \in Range(input.text)
      THEN result = Named("fn()")
    ELSE result.kind = "named" /\ result.name # "fn()"

\* A union of a function type and a class lowers as a union.
C18_Witness ==
  /\ pc = "returned"
  /\ input = UnionOf(<<tFnA, tCrossSection>>)
  /\ "=>" \in Range(input.text)
  /\ result = UnionIR(<<Named("fn()"), Named("CrossSection")>>)

\* The names of the type aliases of all source files of the run.
DeclaredAliases ==
  UNION {{ConcatStrings(sourceFiles[f].typeAliases[a].name) :
            a \in 1..Len(sourceFiles[f].typeAliases)} : f \in 1..Len(sourceFiles)}
\* The IR of a union type names every declared alias of the union's text
\* at the position it has in the text (or as the inner type of an Option).
AliasNamesKept(type, ir) ==
  ReachesUnionBranch(type) =>
    \A i \in 1..Len(UnionParts(type.text)) :
      ConcatStrings(UnionParts(type.text)[i]) \in DeclaredAliases =>
        \/ /\ ir.kind = "union"
           /\ Len(ir.variants) = Len(UnionParts(type.text))
           /\ ir.variants[i] = Named(ConcatStrings(UnionParts(type.text)[i]))
        \/ /\ ir.kind = "option"
           /\ ir.inner = Named(ConcatStrings(UnionParts(type.text)[i]))

\* C19: when lowering is over, in every struct lowered from an interface and
\* in every extern block lowered from a class, a field or argument whose type
\* is a union with the name of a declared type alias in its text has
\* Named{that name} for the variant (not the lowering of the alias's
\* definition), whichever source file declares the alias, a later one
\* included.
C19_AliasNamesPreserved ==
  LoweringOver =>
    \A f \in 1..Len(sourceFiles) :
      /\ \A d \in 1..Len(sourceFiles[f].interfaces) :
           LET decl == sourceFiles[f].interfaces[d]
               item == ItemAt(sourceFiles[f], ConcatStrings(decl.name))
           IN (item.kind = "struct" /\ Len(item.fields) = Len(decl.properties)) =>
                \A i \in 1..Len(decl.properties) :
                  item.fields[i].name = convertToSnakeCase(decl.properties[i].name) =>
                    AliasNamesKept(TypeOfNode(decl.properties[i]), item.fields[i].type)
      /\ \A c \in 1..Len(sourceFiles[f].classes) :
           LET decl == sourceFiles[f].classes[c]
               item == ItemAt(sourceFiles[f], ConcatStrings(decl.name))
           IN (decl.name # <<>> /\ item.kind = "extern_block") =>
                /\ Len(item.methods) = Len(decl.constructors) + Len(decl.staticMethods)
                                         + Len(decl.methods)
                /\ \A k \in 1..Len(decl.constructors) :
                     \A i \in 1..Len(decl.constructors[k]) :
                       AliasNamesKept(TypeOfNode(decl.constructors[k][i]),
                                      item.methods[k].args[i].type)
                /\ \A k \in 1..Len(decl.methods) :
                     \A i \in 1..Len(decl.methods[k].params) :
                       AliasNamesKept(
                         TypeOfNode(decl.methods[k].params[i]),
                         item.methods[Len(decl.constructors) + Len(decl.staticMethods) + k]
                           .args[i].type)

\* Class Shape of the second file takes Vec2 | number and number | Vec2;
\* Vec2 is declared in the third file.
C19_Witness ==
  /\ pc = "done"
  /\ Len(sourceFiles) = 3
  /\ dVec2 \in Range(sourceFiles[3].typeAliases)
  /\ dVec2 \notin Range(sourceFiles[1].typeAliases)
  /\ HasItem(sourceFiles[2], "Shape")
  /\ ItemAt(sourceFiles[2], "Shape").methods[1].args[1].type
       = UnionIR(<<Named("Vec2"), Primitive("f64")>>)
  /\ ItemAt(sourceFiles[2], "Shape").methods[2].args[1].type
       = UnionIR(<<Primitive("f64"), Named("Vec2")>>)

\* C20: a union lowered to Union has, for every variant that is not the name
\* of a registered alias, the IR convertTypeToRustIR gives for that member's
\* type on its own, also when another variant of the union is a registered
\* alias name.
C20_VariantsLoweredRecursively ==
  (pc \in {"returned", "rendered"} /\ ReachesUnionBranch(input) /\ result.kind = "union") =>
    IF HasKnownAliases(UnionParts(input.text))
    THEN \A i \in 1..Len(UnionParts(input.text)) :
           ConcatStrings(UnionParts(input.text)[i]) \notin DOMAIN typeAliasRegistry =>
             \A j \in 1..Len(input.unionTypes) :
               MemberText(input.unionTypes[j]) = UnionParts(input.text)[i] =>
                 result.variants[i] = convertTypeToRustIR(input.unionTypes[j])
    ELSE result.variants = [j \in 1..Len(input.unionTypes) |->
                              convertTypeToRustIR(input.unionTypes[j])]

\* The instance methods of a class declaration: the methods that are not
\* static.
InstanceMethods(classDecl) ==
  SelectSeq(classDecl.methods,
            LAMBDA m : \A i \in 1..Len(classDecl.staticMethods) :
                         classDecl.staticMethods[i].name # m.name)

\* The kind and the name of the method descriptors a class should have: one
\* constructor named new when the class has constructors, then its static
\* methods, then its instance methods.
ExpectedDescriptors(classDecl) ==
  (IF classDecl.constructors # <<>> THEN << <<"constructor", "new">> >> ELSE <<>>)
  \o [i \in 1..Len(classDecl.staticMethods) |->
        <<"static", convertToSnakeCase(classDecl.staticMethods[i].name)>>]
  \o [i \in 1..Len(InstanceMethods(classDecl)) |->
        <<"instance", convertToSnakeCase(InstanceMethods(classDecl)[i].name)>>]

Descriptors(item) ==
  [i \in 1..Len(item.methods) |-> <<item.methods[i].methodType, item.methods[i].name>>]

\* C21: the method descriptors of the ExternBlock of a class are one
\* constructor-kind descriptor named new when the class has constructors (also
\* when it has several), then one static-kind descriptor per static method,
\* then one instance-kind descriptor per instance method, each group in
\* declaration order.
C21_OneConstructorThenStaticThenInstance ==
  \A f \in 1..Len(sourceFiles) :
    (ClassesLowered(f) /\ getFilePrefix(sourceFiles[f].path) = "Encapsulated") =>
      \A c \in 1..Len(sourceFiles[f].classes) :
        sourceFiles[f].classes[c].name # <<>> =>
          Descriptors(ItemAt(sourceFiles[f], ConcatStrings(sourceFiles[f].classes[c].name)))
            = ExpectedDescriptors(sourceFiles[f].classes[c])

\* C22: when the second pass is over, the item of a type alias without a
\* fixed lowering is a TypeAlias whose target is Opaque (js_value) when
\* lowering the alias's type gives Named with the alias's own name, and the
\* lowered type otherwise; its target is never Named with the alias's own
\* name.
C22_SelfReferenceIsOpaque ==
  LoweringOver =>
    \A f \in 1..Len(sourceFiles) : \A a \in 1..Len(sourceFiles[f].typeAliases) :
      With(ConcatStrings(sourceFiles[f].typeAliases[a].name), LAMBDA name :
        name \notin SpecialAliases =>
          /\ HasItem(sourceFiles[f], name)
          /\ ItemAt(sourceFiles[f], name).kind = "type_alias"
          /\ ItemAt(sourceFiles[f], name).target =
               (IF convertTypeToRustIR(sourceFiles[f].typeAliases[a].type) = Named(name)
                THEN JsValue
                ELSE convertTypeToRustIR(sourceFiles[f].typeAliases[a].type))
          /\ ItemAt(sourceFiles[f], name).target # Named(name))

\* C23: once the classes of a file outside the encapsulated category are
\* lowered, every named class of the file with properties has a Struct item
\* with one field per property, in order, and every named class without
\* properties has a TypeAlias item whose target is Opaque (js_value); none has
\* an ExternBlock item.
C23_PlainClassIsStructOrOpaque ==
  \A f \in 1..Len(sourceFiles) :
    (ClassesLowered(f) /\ getFilePrefix(sourceFiles[f].path) \in {"Global", "Manifold"}) =>
      \A c \in 1..Len(sourceFiles[f].classes) :
        With(sourceFiles[f].classes[c], LAMBDA classDecl :
          classDecl.name # <<>> =>
            /\ HasItem(sourceFiles[f], ConcatStrings(classDecl.name))
            /\ With(ItemAt(sourceFiles[f], ConcatStrings(classDecl.name)), LAMBDA item :
                 /\ item.kind # "extern_block"
                 /\ IF Len(classDecl.properties) > 0
                    THEN /\ item.kind = "struct"
                         /\ Len(item.fields) = Len(classDecl.properties)
                         /\ \A i \in 1..Len(classDecl.properties) :
                              /\ item.fields[i].name =
                                   convertToSnakeCase(classDecl.properties[i].name)
                              /\ item.fields[i].type =
                                   convertTypeToRustIR(TypeOfNode(classDecl.properties[i]))
                    ELSE item.kind = "type_alias" /\ item.target = JsValue))

C23_Witness ==
  /\ pc = "done"
  /\ Len(sourceFiles) = 3
  /\ sourceFiles[3].classes = <<dMesh, dBox>>
  /\ ItemAt(sourceFiles[3], "Mesh").kind = "struct"
  /\ ItemAt(sourceFiles[3], "Box") = [kind |-> "type_alias", name |-> "Box", target |-> JsValue]

\* The registry pass of this run is over.
RegistryPassOver == InSecondPass \/ LoweringOver

\* No declaration after the a-th alias of the f-th file has its name.
IsLastDeclaration(f, a) ==
  \A g \in f..Len(sourceFiles) : \A b \in 1..Len(sourceFiles[g].typeAliases) :
    (g > f \/ b > a) => sourceFiles[g].typeAliases[b].name # sourceFiles[f].typeAliases[a].name

WrittenByThisRun(file) ==
  IF file = "todo_unions.rs" THEN todoTypes # <<>>
  ELSE \E i \in 1..Len(fileGroups(generatedItems)) :
         getOutputFileName(fileGroups(generatedItems)[i].key) = file

\* C25: when a run is done, every artifact in the output directory has been
\* written by that run.
C25_NoStaleArtifact ==
  pc = "done" => \A file \in DOMAIN outputDir : WrittenByThisRun(file)

\* C26: after any sequence of calls of getOrCreateTodoUnionName, distinct
\* signatures of todoUnionCache have distinct names, the names of the cache
\* are the keys of todoTypes, each once, their number is todoUnionCounter - 1,
\* and no call changes or removes the name a signature has.
C26_PlaceholderNamesCollisionFree ==
  /\ [](/\ \A s1, s2 \in DOMAIN todoUnionCache :
             todoUnionCache[s1] = todoUnionCache[s2] => s1 = s2
        /\ {todoUnionCache[s] : s \in DOMAIN todoUnionCache} = Keys(todoTypes)
        /\ \A i, j \in 1..Len(todoTypes) : todoTypes[i].key = todoTypes[j].key => i = j
        /\ Len(todoTypes) = todoUnionCounter - 1
        /\ Cardinality(DOMAIN todoUnionCache) = todoUnionCounter - 1)
  /\ [][\A s \in DOMAIN todoUnionCache :
          s \in DOMAIN todoUnionCache' /\ todoUnionCache'[s] = todoUnionCache[s]]_vars

\* Three calls have been made: two of them for the same signature, which got
\* the same name, and one for another signature, which got another name.
C26_Witness ==
  /\ Len(calls) = 3
  /\ Signature(calls[1].variants) = Signature(calls[3].variants)
  /\ calls[1].name = calls[3].name
  /\ Signature(calls[1].variants) # Signature(calls[2].variants)
  /\ calls[1].name # calls[2].name
  /\ todoUnionCounter = 3

\* The identifiers of the placeholder-union names in a text.
PlaceholderIds(text) ==
  {text[i + 1] : i \in {j \in 1..(Len(text) - 2) : text[j] = "Todo" /\ text[j + 2] = "Union"}}

\* C27: when a run is done, every placeholder-union name in the text of a
\* written artifact has its struct in todo_unions.rs, and every category
\* artifact with a placeholder-union name has the todo_unions import.
C27_PlaceholdersDefinedAndImported ==
  pc = "done" =>
    \A file \in DOMAIN outputDir :
      /\ \A id \in PlaceholderIds(outputDir[file]) :
           /\ "todo_unions.rs" \in DOMAIN outputDir
           /\ IncludesTokens(outputDir["todo_unions.rs"],
                             <<"pub struct ", "Todo", id, "Union", " {\n">>)
      /\ (file \in CategoryArtifacts /\ PlaceholderIds(outputDir[file]) # {}) =>
           IncludesTokens(outputDir[file], <<"use super::todo_unions::*;\n">>)

\* interface Nest has been emitted: global_types.rs names the first
\* placeholder only, the second one was registered by the comment of the
\* first one's struct, and todo_unions.rs has both structs.
C27_Witness ==
  /\ pc = "done"
  /\ Len(sourceFiles) > 0 /\ dNest \in Range(sourceFiles[1].interfaces)
  /\ PlaceholderIds(outputDir["global_types.rs"]) = {"001"}
  /\ IncludesTokens(outputDir["global_types.rs"], <<"use super::todo_unions::*;\n">>)
  /\ IncludesTokens(outputDir["todo_unions.rs"],
                    <<"    // Possible variants: ", "String", " | ", "Vec<", "Todo", "002", "Union", ">">>)
  /\ IncludesTokens(outputDir["todo_unions.rs"], <<"pub struct ", "Todo", "002", "Union", " {\n">>)

PassesBeforeEmission == {"register", "interfaces", "typeAliases", "classes", "enums"}

\* C28: the step that ends a run with exit code 1 is taken in the registry
\* pass or in the lowering pass, when the run has written nothing yet, and it
\* writes nothing; no step of the emission ends the run; a run that has
\* exited with code 1 has left the output directory as it found it.
C28_AbortWritesNothing ==
  /\ [][exitCode' = <<1>> =>
          /\ pc \in PassesBeforeEmission
          /\ outputDir = prevOutput
          /\ outputDir' = outputDir]_vars
  /\ [][(pc = "emit") => (pc' \in {"emit", "done"} /\ exitCode' = <<>>)]_vars
  /\ []((pc = "exited" /\ exitCode = <<1>>) => outputDir = prevOutput)

\* The second run found manifold.d.ts under another name, lowered the
\* declarations of the first file and was ended by the first declaration of
\* the unknown file; the artifacts of the first run are as that run left them.
C28_Witness ==
  /\ pc = "exited" /\ exitCode = <<1>> /\ run = 2
  /\ Len(sourceFiles) = 3
  /\ sourceFiles[3].path = <<"types", ".d.ts">>
  /\ generatedItems # <<>>
  /\ "manifold_main.rs" \in DOMAIN outputDir
  /\ "global_types.rs" \in DOMAIN outputDir
  /\ outputDir = prevOutput

(***************************************************************************)
(* THE ELM BRIDGE (wasm-daccad-bridge.ts).  The bridge runs on the         *)
(* browser's event loop: a step below is one run to the next await of one  *)
(* asynchronous function, together with the continuations that its         *)
(* settling promise releases at once (promise reactions are microtasks: no *)
(* port callback and no other call can come between).                      *)
(*   initCalls[c].pc:  "init"      awaiting init() (line 49)               *)
(*                     "manifold"  awaiting Manifold.default() (line 52)   *)
(*                     "returned"  the promise of the call is fulfilled    *)
(*                     "rejected"  the promise of the call is rejected     *)
(*   elmPc:            "idle"      initWasmElmIntegration not called       *)
(*                     "awaiting"  at await initDaccadBridge() (line 222)  *)
(*                     "done"      the try block has run to its end        *)
(*                     "failed"    the catch block has run                 *)
(*   handlers[h].pc:   "thrown"    rejected with 'Bridge not initialized'  *)
(*                     "invoking"  awaiting invoke('read_file') (line 183) *)
(*                     "done"      returned                                *)
(*   handlers[h].sent: the number of port sends the call has made.         *)
(***************************************************************************)
generatorVars == <<typeAliasRegistry, generatedItems, todoTypes, todoUnionCounter,
                   todoUnionCache, pc, fileIdx, sourceFiles, outputDir, run,
                   prevOutput, startSnapshot, exitCode, input, result, rendered, calls>>

\* The messages of the two ports (Main.elm lines 319 and 331; the bridge's
\* lines 184-208 and 229-232).
FromElmTypes == {"LoadFile", "EvalCode"}
FileLoaded == [type |-> "FileLoaded"]
FileLoadError == [type |-> "FileLoadError"]
EvaluationResult == [type |-> "EvaluationResult"]
MessageHandlingFailed == [type |-> "Error", message |-> "Message handling failed"]
InitializationFailed == [type |-> "Error", message |-> "Initialization failed"]

\* lines 164-168: whether the message goes out on the port.
Sends(st) == st.status = "initialized" /\ st.elmApp # "null"
\* lines 164-168: the port's messages after sendToElm(data) in bridge state st.
sendToElm(st, data) == IF Sends(st) THEN Append(toElm, data) ELSE toElm

\* lines 82-87: the state assigned when call c finishes.
Initialized(c) ==
  [status |-> "initialized", engine |-> initCalls[c].engine, manifold |-> c,
   elmApp |-> "null"]

\* lines 46-49: a call of initDaccadBridge up to its first await.
initDaccadBridge(caller) ==
  Append(initCalls,
         [pc |-> IF state.status = "initialized" THEN "returned" ELSE "init",
          engine |-> 0, caller |-> caller])

\* lines 223-225, after the awaited call has returned.
WithElmApp(st) ==
  IF st.status = "initialized" THEN [st EXCEPT !.elmApp = "app"] ELSE st

\* lines 218-222 (and 223-226 when the bridge was initialized before).
InitWasmElmIntegration ==
  /\ elmPc = "idle"
  /\ Len(initCalls) < MaxInitCalls
  /\ initCalls' = initDaccadBridge("integration")
  /\ IF state.status = "initialized"
       THEN elmPc' = "done" /\ state' = WithElmApp(state)
       ELSE elmPc' = "awaiting" /\ UNCHANGED state
  /\ UNCHANGED <<window, engines, handlers, toElm>>
  /\ UNCHANGED generatorVars

\* lines 46-49: a call by another importer of the module.
CallInitDaccadBridge ==
  /\ Len(initCalls) < MaxInitCalls
  /\ initCalls' = initDaccadBridge("other")
  /\ UNCHANGED <<window, state, engines, elmPc, handlers, toElm>>
  /\ UNCHANGED generatorVars

\* lines 49-52: init() is fulfilled; the engine is constructed.
InitResolved ==
  /\ \E c \in 1..Len(initCalls) :
       /\ initCalls[c].pc = "init"
       /\ engines' = engines + 1
       /\ initCalls' = [initCalls EXCEPT ![c].pc = "manifold", ![c].engine = engines + 1]
  /\ UNCHANGED <<window, state, elmPc, handlers, toElm>>
  /\ UNCHANGED generatorVars

\* lines 52-89: Manifold.default() is fulfilled; the state is assigned.  When
\* the call is initWasmElmIntegration's, lines 223-226 follow.
ManifoldResolved ==
  /\ \E c \in 1..Len(initCalls) :
       /\ initCalls[c].pc = "manifold"
       /\ initCalls' = [initCalls EXCEPT ![c].pc = "returned"]
       /\ window' = [window EXCEPT !.manifoldBridge = c]
       /\ IF initCalls[c].caller = "integration"
            THEN state' = WithElmApp(Initialized(c)) /\ elmPc' = "done"
            ELSE state' = Initialized(c) /\ UNCHANGED elmPc
  /\ UNCHANGED <<engines, handlers, toElm>>
  /\ UNCHANGED generatorVars

\* lines 49 and 52: an awaited promise is rejected (the wasm module or the
\* Manifold module cannot be loaded).  When the call is
\* initWasmElmIntegration's, the catch block follows (lines 227-233).
InitRejected ==
  /\ \E c \in 1..Len(initCalls) :
       /\ initCalls[c].pc \in {"init", "manifold"}
       /\ initCalls' = [initCalls EXCEPT ![c].pc = "rejected"]
       /\ IF initCalls[c].caller = "integration"
            THEN toElm' = sendToElm(state, InitializationFailed) /\ elmPc' = "failed"
            ELSE UNCHANGED <<toElm, elmPc>>
  /\ UNCHANGED <<window, state, engines, handlers>>
  /\ UNCHANGED generatorVars

\* lines 199-209: what the call sends for a message passed to the engine;
\* handle_message returns a result or throws.
EngineReplies == {EvaluationResult, MessageHandlingFailed}

\* lines 170-210, up to the first await: the callback subscribed by
\* setupPorts (lines 212-216) receives a message.
HandleFromElmMessage ==
  /\ elmPc # "idle"
  /\ Len(handlers) < MaxMessages
  /\ \E type \in FromElmTypes :
       IF state.status # "initialized"
         THEN /\ handlers' = Append(handlers, [type |-> type, pc |-> "thrown", sent |-> 0])
              /\ UNCHANGED toElm
       ELSE IF type = "LoadFile" /\ window.TAURI
         THEN /\ handlers' = Append(handlers, [type |-> type, pc |-> "invoking", sent |-> 0])
              /\ UNCHANGED toElm
       ELSE /\ handlers' = Append(handlers, [type |-> type, pc |-> "done",
                                              sent |-> IF Sends(state) THEN 1 ELSE 0])
            /\ \E data \in (IF type = "LoadFile" THEN {FileLoadError} ELSE EngineReplies) :
                 toElm' = sendToElm(state, data)
  /\ UNCHANGED <<window, state, initCalls, engines, elmPc>>
  /\ UNCHANGED generatorVars

\* lines 183-196: invoke('read_file') is fulfilled or rejected.
InvokeSettled ==
  /\ \E h \in 1..Len(handlers), data \in {FileLoaded, FileLoadError} :
       /\ handlers[h].pc = "invoking"
       /\ handlers' = [handlers EXCEPT ![h].pc = "done",
                                       ![h].sent = IF Sends(state) THEN 1 ELSE 0]
       /\ toElm' = sendToElm(state, data)
  /\ UNCHANGED <<window, state, initCalls, engines, elmPc>>
  /\ UNCHANGED generatorVars

InitBridge ==
  /\ ModuleLoaded
  /\ PipelineIdle
  /\ pc = "idle"
  /\ input = <<>>
  /\ result = NotStarted
  /\ rendered = <<>>
  /\ calls = <<>>
  /\ BridgeLoaded
  /\ window \in Windows

NextBridge ==
  \/ InitWasmElmIntegration
  \/ CallInitDaccadBridge
  \/ InitResolved
  \/ ManifoldResolved
  \/ InitRejected
  \/ HandleFromElmMessage
  \/ InvokeSettled
SpecBridge == InitBridge /\ [][NextBridge]_vars

\* C29: every failure of the bridge reaches the Elm application as a message:
\* when initDaccadBridge has failed inside initWasmElmIntegration, the
\* 'Initialization failed' Error message has been sent on the toElm port, and
\* every call of the fromElm callback that has finished (also one made
\* before the initialization was complete) has sent exactly one message,
\* no call ever more than one.
C29_EveryFailureReported ==
  /\ (elmPc = "failed") => (InitializationFailed \in Range(toElm))
  /\ \A h \in 1..Len(handlers) :
       /\ handlers[h].sent <= 1
       /\ (handlers[h].pc \in {"done", "thrown"}) => (handlers[h].sent = 1)

\* C30: the bridge state never leaves 'initialized' and its engine is never
\* replaced, and over all interleavings of initDaccadBridge calls at most one
\* DaccadEngine is constructed.
C30_InitializedOnce ==
  /\ [](engines <= 1)
  /\ [][(state.status = "initialized")
          => (state'.status = "initialized" /\ state'.engine = state.engine)]_vars
========================================================================
